---- MODULE Spec2Model ----
(***************************************************************************)
(* Model of the schema conversion core of datacontract-cli: the SQL DDL    *)
(* importer (imports/sql_importer.py), the ODCS v3 exporter                *)
(* (export/odcs_v3_exporter.py) and the ODCS v3 importer                   *)
(* (imports/odcs_v3_importer.py).                                          *)
(*                                                                         *)
(* Conventions.  A Python Optional value is a set with at most one         *)
(* element: None is {} and a present value v is {v}.  Text that the code   *)
(* inspects character by character (type tokens, type parameters, terms)   *)
(* is a sequence of one-character strings; names that the code only        *)
(* compares or uses as dictionary keys are TLA+ strings.                   *)
(***************************************************************************)
EXTENDS Integers, Sequences, FiniteSets, TLC

VARIABLES
  dcs,     \* the DataContractSpecification the calls work on
  before,  \* the document as it was when the last import_sql call began
  imp,     \* the last import_sql call: its arguments and what it raised
  call,    \* the last call of the conversion pipeline and what it returned
  n,       \* the number of import_sql calls made
  fn       \* the last call of a pure function: its arguments and its result

vars == <<dcs, before, imp, call, n, fn>>

----------------------------------------------------------------------------
(* Optional values *)

None == {}

Some(v) == {v}

Get(o) == CHOOSE v \in o : TRUE

----------------------------------------------------------------------------
(* Text *)

UpperAlpha ==
  <<"A", "B", "C", "D", "E", "F", "G", "H", "I", "J", "K", "L", "M",
    "N", "O", "P", "Q", "R", "S", "T", "U", "V", "W", "X", "Y", "Z">>

LowerAlpha ==
  <<"a", "b", "c", "d", "e", "f", "g", "h", "i", "j", "k", "l", "m",
    "n", "o", "p", "q", "r", "s", "t", "u", "v", "w", "x", "y", "z">>

Digits == <<"0", "1", "2", "3", "4", "5", "6", "7", "8", "9">>

LowerChar(c) ==
  IF \E i \in DOMAIN UpperAlpha : UpperAlpha[i] = c
    THEN LowerAlpha[CHOOSE i \in DOMAIN UpperAlpha : UpperAlpha[i] = c]
    ELSE c

UpperChar(c) ==
  IF \E i \in DOMAIN LowerAlpha : LowerAlpha[i] = c
    THEN UpperAlpha[CHOOSE i \in DOMAIN LowerAlpha : LowerAlpha[i] = c]
    ELSE c

\* str.lower()
Lower(t) == [i \in DOMAIN t |-> LowerChar(t[i])]

\* str.upper()
Upper(t) == [i \in DOMAIN t |-> UpperChar(t[i])]

\* str.strip(): drops the leading and the trailing blanks
Strip(t) ==
  LET solid == {i \in DOMAIN t : t[i] # " "}
  IN IF solid = {} THEN <<>>
     ELSE LET lo == CHOOSE i \in solid : \A j \in solid : i <= j
              hi == CHOOSE i \in solid : \A j \in solid : j <= i
          IN SubSeq(t, lo, hi)

\* str.startswith(prefix)
StartsWith(t, prefix) ==
  /\ Len(prefix) <= Len(t)
  /\ SubSeq(t, 1, Len(prefix)) = prefix

\* str.isdigit(), on the ASCII characters of the model
IsDigit(t) ==
  /\ Len(t) > 0
  /\ \A i \in DOMAIN t : \E d \in DOMAIN Digits : Digits[d] = t[i]

DigitValue(c) == (CHOOSE d \in DOMAIN Digits : Digits[d] = c) - 1

RECURSIVE ToInt(_)
\* int(text) of a text of decimal digits
ToInt(t) ==
  IF Len(t) = 0 THEN 0
  ELSE 10 * ToInt(SubSeq(t, 1, Len(t) - 1)) + DigitValue(t[Len(t)])

\* The characters of the string literals of the source and of the texts the
\* model feeds in
Chars(s) ==
  CASE s = "varchar" -> <<"v", "a", "r", "c", "h", "a", "r">>
    [] s = "char" -> <<"c", "h", "a", "r">>
    [] s = "string" -> <<"s", "t", "r", "i", "n", "g">>
    [] s = "nchar" -> <<"n", "c", "h", "a", "r">>
    [] s = "text" -> <<"t", "e", "x", "t">>
    [] s = "nvarchar" -> <<"n", "v", "a", "r", "c", "h", "a", "r">>
    [] s = "ntext" -> <<"n", "t", "e", "x", "t">>
    [] s = "int" -> <<"i", "n", "t">>
    [] s = "tinyint" -> <<"t", "i", "n", "y", "i", "n", "t">>
    [] s = "smallint" -> <<"s", "m", "a", "l", "l", "i", "n", "t">>
    [] s = "bigint" -> <<"b", "i", "g", "i", "n", "t">>
    [] s = "float" -> <<"f", "l", "o", "a", "t">>
    [] s = "double" -> <<"d", "o", "u", "b", "l", "e">>
    [] s = "real" -> <<"r", "e", "a", "l">>
    [] s = "number" -> <<"n", "u", "m", "b", "e", "r">>
    [] s = "numeric" -> <<"n", "u", "m", "e", "r", "i", "c">>
    [] s = "decimal" -> <<"d", "e", "c", "i", "m", "a", "l">>
    [] s = "bool" -> <<"b", "o", "o", "l">>
    [] s = "bit" -> <<"b", "i", "t">>
    [] s = "binary" -> <<"b", "i", "n", "a", "r", "y">>
    [] s = "varbinary" -> <<"v", "a", "r", "b", "i", "n", "a", "r", "y">>
    [] s = "date" -> <<"d", "a", "t", "e">>
    [] s = "time" -> <<"t", "i", "m", "e">>
    [] s = "timestamp" -> <<"t", "i", "m", "e", "s", "t", "a", "m", "p">>
    [] s = "timestamptz" -> <<"t", "i", "m", "e", "s", "t", "a", "m", "p", "t", "z">>
    [] s = "timestamp_tz" -> <<"t", "i", "m", "e", "s", "t", "a", "m", "p", "_", "t", "z">>
    [] s = "timestamp with time zone" -> <<"t", "i", "m", "e", "s", "t", "a", "m", "p", " ", "w", "i", "t", "h", " ", "t", "i", "m", "e", " ", "z", "o", "n", "e">>
    [] s = "timestamp_ltz" -> <<"t", "i", "m", "e", "s", "t", "a", "m", "p", "_", "l", "t", "z">>
    [] s = "timestampntz" -> <<"t", "i", "m", "e", "s", "t", "a", "m", "p", "n", "t", "z">>
    [] s = "timestamp_ntz" -> <<"t", "i", "m", "e", "s", "t", "a", "m", "p", "_", "n", "t", "z">>
    [] s = "smalldatetime" -> <<"s", "m", "a", "l", "l", "d", "a", "t", "e", "t", "i", "m", "e">>
    [] s = "datetime" -> <<"d", "a", "t", "e", "t", "i", "m", "e">>
    [] s = "datetime2" -> <<"d", "a", "t", "e", "t", "i", "m", "e", "2">>
    [] s = "datetimeoffset" -> <<"d", "a", "t", "e", "t", "i", "m", "e", "o", "f", "f", "s", "e", "t">>
    [] s = "uniqueidentifier" -> <<"u", "n", "i", "q", "u", "e", "i", "d", "e", "n", "t", "i", "f", "i", "e", "r">>
    [] s = "json" -> <<"j", "s", "o", "n">>
    [] s = "xml" -> <<"x", "m", "l">>
    [] s = "integer" -> <<"i", "n", "t", "e", "g", "e", "r">>
    [] s = "boolean" -> <<"b", "o", "o", "l", "e", "a", "n">>
    [] s = "geography" -> <<"g", "e", "o", "g", "r", "a", "p", "h", "y">>
    [] s = "interval" -> <<"i", "n", "t", "e", "r", "v", "a", "l">>
    [] s = "money" -> <<"m", "o", "n", "e", "y">>
    [] s = "uuid" -> <<"u", "u", "i", "d">>
    [] s = "max" -> <<"m", "a", "x">>
    [] s = "10" -> <<"1", "0">>
    [] s = "2" -> <<"2">>
    [] s = "38" -> <<"3", "8">>
    [] s = "0" -> <<"0">>
    [] s = "-1" -> <<"-", "1">>
    [] s = "007" -> <<"0", "0", "7">>
    [] s = "" -> <<>>
    [] s = "sqlserver" -> <<"s", "q", "l", "s", "e", "r", "v", "e", "r">>
    [] s = "tsql" -> <<"t", "s", "q", "l">>
    [] s = "postgres" -> <<"p", "o", "s", "t", "g", "r", "e", "s">>
    [] s = "Postgres" -> <<"P", "o", "s", "t", "g", "r", "e", "s">>
    [] s = "bigquery" -> <<"b", "i", "g", "q", "u", "e", "r", "y">>
    [] s = "snowflake" -> <<"s", "n", "o", "w", "f", "l", "a", "k", "e">>
    [] s = "redshift" -> <<"r", "e", "d", "s", "h", "i", "f", "t">>
    [] s = "oracle" -> <<"o", "r", "a", "c", "l", "e">>
    [] s = "mysql" -> <<"m", "y", "s", "q", "l">>
    [] s = "databricks" -> <<"d", "a", "t", "a", "b", "r", "i", "c", "k", "s">>
    [] s = "duckdb" -> <<"d", "u", "c", "k", "d", "b">>
    [] s = "bogus" -> <<"b", "o", "g", "u", "s">>
    [] s = "None" -> <<"N", "o", "n", "e">>
    [] s = "none" -> <<"n", "o", "n", "e">>
    [] s = "VARCHAR" -> <<"V", "A", "R", "C", "H", "A", "R">>
    [] s = "CHAR" -> <<"C", "H", "A", "R">>
    [] s = "NVARCHAR" -> <<"N", "V", "A", "R", "C", "H", "A", "R">>
    [] s = "NCHAR" -> <<"N", "C", "H", "A", "R">>
    [] s = "TEXT" -> <<"T", "E", "X", "T">>
    [] s = "INT" -> <<"I", "N", "T">>
    [] s = "BIGINT" -> <<"B", "I", "G", "I", "N", "T">>
    [] s = "SMALLINT" -> <<"S", "M", "A", "L", "L", "I", "N", "T">>
    [] s = "DECIMAL" -> <<"D", "E", "C", "I", "M", "A", "L">>
    [] s = "FLOAT" -> <<"F", "L", "O", "A", "T">>
    [] s = "DOUBLE" -> <<"D", "O", "U", "B", "L", "E">>
    [] s = "BOOLEAN" -> <<"B", "O", "O", "L", "E", "A", "N">>
    [] s = "DATE" -> <<"D", "A", "T", "E">>
    [] s = "TIMESTAMP" -> <<"T", "I", "M", "E", "S", "T", "A", "M", "P">>
    [] s = "GEOGRAPHY" -> <<"G", "E", "O", "G", "R", "A", "P", "H", "Y">>
    [] s = "mailto:" -> <<"m", "a", "i", "l", "t", "o", ":">>
    [] s = "proposed" -> <<"p", "r", "o", "p", "o", "s", "e", "d">>
    [] s = "draft" -> <<"d", "r", "a", "f", "t">>
    [] s = "active" -> <<"a", "c", "t", "i", "v", "e">>
    [] s = "deprecated" -> <<"d", "e", "p", "r", "e", "c", "a", "t", "e", "d">>
    [] s = "retired" -> <<"r", "e", "t", "i", "r", "e", "d">>
    [] s = "ACTIVE" -> <<"A", "C", "T", "I", "V", "E">>
    [] s = " usage " -> <<" ", "u", "s", "a", "g", "e", " ">>
    [] s = "a@b.c" -> <<"a", "@", "b", ".", "c">>
    [] s = "http://x" -> <<"h", "t", "t", "p", ":", "/", "/", "x">>
    [] s = "purpose" -> <<"p", "u", "r", "p", "o", "s", "e">>
    [] s = "limits" -> <<"l", "i", "m", "i", "t", "s">>
    [] s = "1y" -> <<"1", "y">>
    [] s = "pg" -> <<"p", "g">>
    [] s = "NUMERIC" -> <<"N", "U", "M", "E", "R", "I", "C">>
    [] s = " an id " -> <<" ", "a", "n", " ", "i", "d", " ">>
    [] s = "the key" -> <<"t", "h", "e", " ", "k", "e", "y">>
    [] s = "x" -> <<"x">>
    [] s = "(10)" -> <<"(", "1", "0", ")">>
    [] s = "(10, 2)" -> <<"(", "1", "0", ",", " ", "2", ")">>
    [] s = "(max)" -> <<"(", "m", "a", "x", ")">>
    [] s = "NUMBER" -> <<"N", "U", "M", "B", "E", "R">>
    [] s = "numeric(10,2)" -> <<"n", "u", "m", "e", "r", "i", "c", "(", "1", "0", ",", "2", ")">>
    [] s = "DECIMAL(10, 2)" -> <<"D", "E", "C", "I", "M", "A", "L", "(", "1", "0", ",", " ", "2", ")">>
    [] s = "VARCHAR(10)" -> <<"V", "A", "R", "C", "H", "A", "R", "(", "1", "0", ")">>
    [] s = "BIGINT(20)" -> <<"B", "I", "G", "I", "N", "T", "(", "2", "0", ")">>
    [] s = "(20)" -> <<"(", "2", "0", ")">>
    [] s = "Snowflake" -> <<"S", "n", "o", "w", "f", "l", "a", "k", "e">>
    [] s = " active " -> <<" ", "a", "c", "t", "i", "v", "e", " ">>
    [] s = "owner" -> <<"o", "w", "n", "e", "r">>
    [] s = "dc_mapping_" -> <<"d", "c", "_", "m", "a", "p", "p", "i", "n", "g", "_">>
    [] s = "https://acct.blob.core.windows.net/orders" -> <<"h", "t", "t", "p", "s", ":", "/", "/", "a", "c", "c", "t", ".", "b", "l", "o", "b", ".", "c", "o", "r", "e", ".", "w", "i", "n", "d", "o", "w", "s", ".", "n", "e", "t", "/", "o", "r", "d", "e", "r", "s">>
    [] s = "container@acct.dfs.core.windows.net" -> <<"c", "o", "n", "t", "a", "i", "n", "e", "r", "@", "a", "c", "c", "t", ".", "d", "f", "s", ".", "c", "o", "r", "e", ".", "w", "i", "n", "d", "o", "w", "s", ".", "n", "e", "t">>
    [] s = "container/orders/*.parquet" -> <<"c", "o", "n", "t", "a", "i", "n", "e", "r", "/", "o", "r", "d", "e", "r", "s", "/", "*", ".", "p", "a", "r", "q", "u", "e", "t">>
    [] s = "abfss://.net" -> <<"a", "b", "f", "s", "s", ":", "/", "/", ".", "n", "e", "t">>
    [] s = "USD" -> <<"U", "S", "D">>
    [] s = "99.9%" -> <<"9", "9", ".", "9", "%">>
    [] s = "1" -> <<"1">>
    [] s = "y" -> <<"y">>
    [] s = "4" -> <<"4">>
    [] s = "d" -> <<"d">>
    [] s = "mailto:a@b.c" -> <<"m", "a", "i", "l", "t", "o", ":", "a", "@", "b", ".", "c">>
    [] s = "the name" -> <<"t", "h", "e", " ", "n", "a", "m", "e">>
    [] s = "orders" -> <<"o", "r", "d", "e", "r", "s">>
    [] s = "geometry" -> <<"g", "e", "o", "m", "e", "t", "r", "y">>
    [] s = "dc_mapping_money" -> <<"d", "c", "_", "m", "a", "p", "p", "i", "n", "g", "_", "m", "o", "n", "e", "y">>
    [] s = "dc_mapping_string" -> <<"d", "c", "_", "m", "a", "p", "p", "i", "n", "g", "_", "s", "t", "r", "i", "n", "g">>
    [] s = "long" -> <<"l", "o", "n", "g">>
    [] s = "array" -> <<"a", "r", "r", "a", "y">>
    [] s = "bytes" -> <<"b", "y", "t", "e", "s">>
    [] s = "object" -> <<"o", "b", "j", "e", "c", "t">>
    [] s = "record" -> <<"r", "e", "c", "o", "r", "d">>
    [] s = "struct" -> <<"s", "t", "r", "u", "c", "t">>
    [] s = "null" -> <<"n", "u", "l", "l">>
    [] s = "variant" -> <<"v", "a", "r", "i", "a", "n", "t">>
    [] s = "acct" -> <<"a", "c", "c", "t">>
    [] s = "1None" -> <<"1", "N", "o", "n", "e">>

----------------------------------------------------------------------------
(* Canonical type resolution, SQL path *)

\* The chain of tests of map_type_from_sql, on the normalised token
map_type_normed(sql_type_normed) ==
  IF StartsWith(sql_type_normed, Chars("varchar")) THEN "string"
  ELSE IF StartsWith(sql_type_normed, Chars("char")) THEN "string"
  ELSE IF StartsWith(sql_type_normed, Chars("string")) THEN "string"
  ELSE IF StartsWith(sql_type_normed, Chars("nchar")) THEN "string"
  ELSE IF StartsWith(sql_type_normed, Chars("text")) THEN "string"
  ELSE IF StartsWith(sql_type_normed, Chars("nvarchar")) THEN "string"
  ELSE IF StartsWith(sql_type_normed, Chars("ntext")) THEN "string"
  ELSE IF StartsWith(sql_type_normed, Chars("int")) THEN "int"
  ELSE IF StartsWith(sql_type_normed, Chars("tinyint")) THEN "int"
  ELSE IF StartsWith(sql_type_normed, Chars("smallint")) THEN "int"
  ELSE IF StartsWith(sql_type_normed, Chars("bigint")) THEN "long"
  ELSE IF \/ StartsWith(sql_type_normed, Chars("float"))
          \/ StartsWith(sql_type_normed, Chars("double"))
          \/ sql_type_normed = Chars("real") THEN "float"
  ELSE IF StartsWith(sql_type_normed, Chars("number")) THEN "decimal"
  ELSE IF StartsWith(sql_type_normed, Chars("numeric")) THEN "decimal"
  ELSE IF StartsWith(sql_type_normed, Chars("decimal")) THEN "decimal"
  ELSE IF StartsWith(sql_type_normed, Chars("bool")) THEN "boolean"
  ELSE IF StartsWith(sql_type_normed, Chars("bit")) THEN "boolean"
  ELSE IF StartsWith(sql_type_normed, Chars("binary")) THEN "bytes"
  ELSE IF StartsWith(sql_type_normed, Chars("varbinary")) THEN "bytes"
  ELSE IF sql_type_normed = Chars("date") THEN "date"
  ELSE IF sql_type_normed = Chars("time") THEN "string"
  ELSE IF sql_type_normed = Chars("timestamp") THEN "timestamp_ntz"
  ELSE IF \/ sql_type_normed = Chars("timestamptz")
          \/ sql_type_normed = Chars("timestamp_tz")
          \/ sql_type_normed = Chars("timestamp with time zone")
          \/ sql_type_normed = Chars("timestamp_ltz") THEN "timestamp_tz"
  ELSE IF \/ sql_type_normed = Chars("timestampntz")
          \/ sql_type_normed = Chars("timestamp_ntz") THEN "timestamp_ntz"
  ELSE IF sql_type_normed = Chars("smalldatetime") THEN "timestamp_ntz"
  ELSE IF sql_type_normed = Chars("datetime") THEN "timestamp_ntz"
  ELSE IF sql_type_normed = Chars("datetime2") THEN "timestamp_ntz"
  ELSE IF sql_type_normed = Chars("datetimeoffset") THEN "timestamp_tz"
  ELSE IF sql_type_normed = Chars("uniqueidentifier") THEN "string"
  ELSE IF sql_type_normed = Chars("json") THEN "string"
  ELSE IF sql_type_normed = Chars("xml") THEN "string"
  ELSE "object"

\* map_type_from_sql with the lower-casing of the token left out
map_type_from_sql_case_sensitive(sql_type) ==
  IF sql_type = None THEN None
  ELSE Some(map_type_normed(Strip(Get(sql_type))))

\* map_type_from_sql(sql_type): None for a missing token, else the type the
\* chain gives for the lower-cased, stripped token
map_type_from_sql(sql_type) ==
  IF sql_type = None THEN None
  ELSE Some(map_type_normed(Strip(Lower(Get(sql_type)))))

----------------------------------------------------------------------------
(* Dialect registry.  sqlglot's Dialects is a str-valued enumeration: a     *)
(* member is a string equal to its value, so a member is represented by    *)
(* the text of its value; the member named NAME has the value lower(NAME). *)

\* The values of the members of sqlglot's Dialects that the model uses
DialectsValues ==
  {Chars("tsql"), Chars("postgres"), Chars("bigquery"), Chars("snowflake"),
   Chars("redshift"), Chars("oracle"), Chars("mysql"), Chars("databricks"),
   Chars("duckdb")}

\* Dialects.__members__: the member names
DialectsMembers == {Upper(v) : v \in DialectsValues}

\* to_dialect(import_args)
to_dialect(import_args) ==
  IF import_args = None THEN None
  ELSE IF "dialect" \notin DOMAIN Get(import_args) THEN None
  ELSE LET dialect == Get(import_args)["dialect"]
       IN IF dialect = None THEN None
          ELSE IF Get(dialect) = Chars("sqlserver") THEN Some(Chars("tsql"))
          ELSE IF Upper(Get(dialect)) \in DialectsMembers
                 THEN Some(Lower(Upper(Get(dialect))))
          ELSE Some(Chars("None"))

\* dialect_map of to_physical_type_key
physical_type_key_map(d) ==
  IF d = Some(Chars("tsql")) THEN Some("sqlserverType")
  ELSE IF d = Some(Chars("postgres")) THEN Some("postgresType")
  ELSE IF d = Some(Chars("bigquery")) THEN Some("bigqueryType")
  ELSE IF d = Some(Chars("snowflake")) THEN Some("snowflakeType")
  ELSE IF d = Some(Chars("redshift")) THEN Some("redshiftType")
  ELSE IF d = Some(Chars("oracle")) THEN Some("oracleType")
  ELSE IF d = Some(Chars("mysql")) THEN Some("mysqlType")
  ELSE IF d = Some(Chars("databricks")) THEN Some("databricksType")
  ELSE None

\* to_physical_type_key(dialect): a str (every member is one) is looked up
\* again by its upper-cased name; anything unknown gets the generic key
to_physical_type_key(dialect) ==
  LET d == IF dialect = None THEN None
           ELSE IF Upper(Get(dialect)) \in DialectsMembers
                  THEN Some(Lower(Upper(Get(dialect))))
           ELSE None
  IN IF physical_type_key_map(d) = None THEN "physicalType"
     ELSE Get(physical_type_key_map(d))

\* to_server_type(source, dialect)
to_server_type(source, dialect) ==
  IF dialect = None THEN None
  ELSE IF dialect = Some(Chars("tsql")) THEN Some("sqlserver")
  ELSE IF dialect = Some(Chars("postgres")) THEN Some("postgres")
  ELSE IF dialect = Some(Chars("bigquery")) THEN Some("bigquery")
  ELSE IF dialect = Some(Chars("snowflake")) THEN Some("snowflake")
  ELSE IF dialect = Some(Chars("redshift")) THEN Some("redshift")
  ELSE IF dialect = Some(Chars("oracle")) THEN Some("oracle")
  ELSE IF dialect = Some(Chars("mysql")) THEN Some("mysql")
  ELSE IF dialect = Some(Chars("databricks")) THEN Some("databricks")
  ELSE None

----------------------------------------------------------------------------
(* Python dictionaries keep insertion order: a dictionary is the sequence  *)
(* of its keys and the value at each key.                                  *)

EmptyDict == [order |-> <<>>, at |-> <<>>]

HasKey(d, k) == k \in DOMAIN d.at

\* d[k] = v
DictSet(d, k, v) ==
  [order |-> IF HasKey(d, k) THEN d.order ELSE Append(d.order, k),
   at |-> [x \in DOMAIN d.at \cup {k} |-> IF x = k THEN v ELSE d.at[x]]]

\* {k: v}
Dict1(k, v) == DictSet(EmptyDict, k, v)

\* list(d.values())
Values(d) == [i \in DOMAIN d.order |-> d.at[d.order[i]]]

----------------------------------------------------------------------------
(* Physical type keys on the ODCS side *)

\* to_physical_type(config) of the exporter
to_physical_type(config) ==
  IF config = None THEN None
  ELSE LET c == Get(config)
       IN IF HasKey(c, "postgresType") THEN Some(c.at["postgresType"])
          ELSE IF HasKey(c, "bigqueryType") THEN Some(c.at["bigqueryType"])
          ELSE IF HasKey(c, "snowflakeType") THEN Some(c.at["snowflakeType"])
          ELSE IF HasKey(c, "redshiftType") THEN Some(c.at["redshiftType"])
          ELSE IF HasKey(c, "sqlserverType") THEN Some(c.at["sqlserverType"])
          ELSE IF HasKey(c, "databricksType") THEN Some(c.at["databricksType"])
          ELSE IF HasKey(c, "physicalType") THEN Some(c.at["physicalType"])
          ELSE None

RECURSIVE PutItems(_, _)
\* for item in items: config[item.property] = item.value
PutItems(config, items) ==
  IF items = <<>> THEN config
  ELSE PutItems(DictSet(config, Head(items).property, Head(items).value),
                Tail(items))

\* The key import_field_config files a physical type under
field_config_key(server_type) ==
  IF server_type = Some("postgres") \/ server_type = Some("postgresql")
    THEN "postgresType"
  ELSE IF server_type = Some("bigquery") THEN "bigqueryType"
  ELSE IF server_type = Some("snowflake") THEN "snowflakeType"
  ELSE IF server_type = Some("redshift") THEN "redshiftType"
  ELSE IF server_type = Some("sqlserver") THEN "sqlserverType"
  ELSE IF server_type = Some("databricks") THEN "databricksType"
  ELSE "physicalType"

\* import_field_config(odcs_property, server_type) of the ODCS importer
import_field_config(odcs_property, server_type) ==
  LET c0 == EmptyDict
      c1 == IF odcs_property.criticalDataElement # None
              THEN DictSet(c0, "criticalDataElement",
                           Get(odcs_property.criticalDataElement))
              ELSE c0
      c2 == IF odcs_property.encryptedName # None
              THEN DictSet(c1, "encryptedName", Get(odcs_property.encryptedName))
              ELSE c1
      c3 == IF odcs_property.partitionKeyPosition # None
              THEN DictSet(c2, "partitionKeyPosition",
                           Get(odcs_property.partitionKeyPosition))
              ELSE c2
      c4 == IF odcs_property.partitioned # None
              THEN DictSet(c3, "partitioned", Get(odcs_property.partitioned))
              ELSE c3
      c5 == IF odcs_property.customProperties # None
              THEN PutItems(c4, Get(odcs_property.customProperties))
              ELSE c4
  IN IF odcs_property.physicalType # None
       THEN DictSet(c5, field_config_key(server_type),
                    Get(odcs_property.physicalType))
       ELSE c5

----------------------------------------------------------------------------
(* SQL DDL importer.  A parsed statement is what sqlglot.parse_one hands   *)
(* back: the tables it mentions, its column definitions in order (each     *)
(* with the name of the table of its schema), the table comment and tags,  *)
(* and the table-level PRIMARY KEY constraint of the schema.  A column     *)
(* definition has a name, a type (kind: a type name and its parameters, or *)
(* None), its column constraints, its comments and its tags.               *)

RECURSIVE JoinText(_, _)
\* sep.join(parts)
JoinText(parts, sep) ==
  IF parts = <<>> THEN <<>>
  ELSE IF Len(parts) = 1 THEN parts[1]
  ELSE parts[1] \o sep \o JoinText(Tail(parts), sep)

\* kind.sql(dialect): the type as sqlglot writes it, NAME or NAME(p1, p2)
DataTypeSql(kind, dialect) ==
  IF kind.params = <<>> THEN kind.name
  ELSE kind.name \o <<"(">> \o JoinText(kind.params, <<",", " ">>) \o <<")">>

\* to_col_type(column, dialect)
to_col_type(column, dialect) ==
  IF column.kind = None THEN None
  ELSE Some(DataTypeSql(Get(column.kind), dialect))

\* to_col_type_normalized(column) reads column.args["kind"].this with no test
\* for a missing kind: an AttributeError when the column has no type
to_col_type_normalized_raises(column) == column.kind = None

\* to_col_type_normalized(column), for a column that has a type
to_col_type_normalized(column) == Lower(Get(column.kind).name)

\* get_max_length(column), for a column that has a type
get_max_length(column) ==
  LET col_type == to_col_type_normalized(column)
      col_params == Get(column.kind).params
      max_length_str ==
        IF Len(col_params) = 1 THEN Some(col_params[1])
        ELSE IF Len(col_params) = 2 THEN Some(col_params[2])
        ELSE None
  IN IF col_type \notin {Chars("varchar"), Chars("char"),
                         Chars("nvarchar"), Chars("nchar")} THEN None
     ELSE IF Len(col_params) = 0 THEN None
     ELSE IF max_length_str # None
            THEN IF IsDigit(Get(max_length_str))
                   THEN Some(ToInt(Get(max_length_str)))
                   ELSE None
     ELSE None

\* get_precision_scale with the default scale of a lone precision left out
get_precision_scale_no_default(column) ==
  LET col_type == to_col_type_normalized(column)
      col_params == Get(column.kind).params
      nothing == [precision |-> None, scale |-> None]
  IN IF col_type \notin {Chars("decimal"), Chars("numeric"),
                         Chars("float"), Chars("number")} THEN nothing
     ELSE IF Len(col_params) = 0 THEN nothing
     ELSE IF Len(col_params) = 1
            THEN IF ~IsDigit(col_params[1]) THEN nothing
                 ELSE [precision |-> Some(ToInt(col_params[1])), scale |-> None]
     ELSE IF Len(col_params) = 2
            THEN IF ~IsDigit(col_params[1]) \/ ~IsDigit(col_params[2])
                   THEN nothing
                 ELSE [precision |-> Some(ToInt(col_params[1])),
                       scale |-> Some(ToInt(col_params[2]))]
     ELSE nothing

\* get_precision_scale(column), for a column that has a type
get_precision_scale(column) ==
  LET col_type == to_col_type_normalized(column)
      col_params == Get(column.kind).params
      nothing == [precision |-> None, scale |-> None]
  IN IF col_type \notin {Chars("decimal"), Chars("numeric"),
                         Chars("float"), Chars("number")} THEN nothing
     ELSE IF Len(col_params) = 0 THEN nothing
     ELSE IF Len(col_params) = 1
            THEN IF ~IsDigit(col_params[1]) THEN nothing
                 ELSE [precision |-> Some(ToInt(col_params[1])), scale |-> Some(0)]
     ELSE IF Len(col_params) = 2
            THEN IF ~IsDigit(col_params[1]) \/ ~IsDigit(col_params[2])
                   THEN nothing
                 ELSE [precision |-> Some(ToInt(col_params[1])),
                       scale |-> Some(ToInt(col_params[2]))]
     ELSE nothing

\* get_primary_key(column): searches the column definition's own subtree
get_primary_key(column) ==
  IF "PrimaryKeyColumnConstraint" \in column.constraints THEN Some(TRUE)
  ELSE IF "PrimaryKey" \in column.constraints THEN Some(TRUE)
  ELSE None

\* get_description(column)
get_description(column) ==
  IF column.comments = None
    THEN IF column.comment # None THEN column.comment ELSE None
  ELSE Some(JoinText([i \in DOMAIN Get(column.comments) |->
                        Strip(Get(column.comments)[i])], <<" ">>))

\* get_tags(column)
get_tags(column) == column.tags

\* Field(): every attribute of a new Field is absent
NewField ==
  [type |-> None, description |-> None, maxLength |-> None,
   precision |-> None, scale |-> None, primaryKey |-> None,
   required |-> None, unique |-> None, tags |-> None, config |-> None,
   customProperties |-> EmptyDict]

\* The body of the column loop of sqlglot_model_wrapper for one column
ColumnField(column, dialect) ==
  LET col_type == to_col_type(column, dialect)
      size == get_precision_scale(column)
  IN [NewField EXCEPT
        !.type = map_type_from_sql(col_type),
        !.description = get_description(column),
        !.maxLength = get_max_length(column),
        !.precision = size.precision,
        !.scale = size.scale,
        !.primaryKey = get_primary_key(column),
        !.required = IF "NotNullColumnConstraint" \in column.constraints
                       THEN Some(TRUE) ELSE None,
        !.tags = get_tags(column),
        !.config = Some(Dict1(to_physical_type_key(dialect), Get(col_type)))]

RECURSIVE ColumnFields(_, _, _, _)
\* The column loop of sqlglot_model_wrapper: the columns of other tables
\* are skipped, a later column of the same name replaces an earlier one
ColumnFields(fields, columns, table_name, dialect) ==
  IF columns = <<>> THEN fields
  ELSE IF Head(columns).parent # table_name
         THEN ColumnFields(fields, Tail(columns), table_name, dialect)
  ELSE ColumnFields(DictSet(fields, Head(columns).name,
                            ColumnField(Head(columns), dialect)),
                    Tail(columns), table_name, dialect)

\* sqlglot_model_wrapper raises (AttributeError, from get_max_length) when a
\* column of the table has no type
sqlglot_model_wrapper_raises(table_name, parsed) ==
  \E i \in DOMAIN parsed.columns :
     /\ parsed.columns[i].parent = table_name
     /\ to_col_type_normalized_raises(parsed.columns[i])

\* sqlglot_model_wrapper(table, parsed, dialect), when it does not raise
sqlglot_model_wrapper(table_name, parsed, dialect) ==
  [table_name |-> table_name,
   fields |-> ColumnFields(EmptyDict, parsed.columns, table_name, dialect),
   table_description |-> parsed.comment,
   table_tags |-> parsed.tags]

\* Model(type="table", description=..., tags=..., fields=...)
TableModel(w) ==
  [type |-> Some("table"), description |-> w.table_description,
   tags |-> w.table_tags, title |-> None, fields |-> w.fields,
   customProperties |-> EmptyDict]

RECURSIVE ImportTablesMerging(_, _, _, _)
\* The table loop with a model that keeps the fields, type and custom
\* properties of a model already there under the table's name
ImportTablesMerging(doc, tables, parsed, dialect) ==
  IF tables = <<>> THEN [doc |-> doc, raised |-> "none"]
  ELSE IF sqlglot_model_wrapper_raises(Head(tables), parsed)
         THEN [doc |-> doc, raised |-> "AttributeError"]
  ELSE ImportTablesMerging(
         [doc EXCEPT !.models =
            IF HasKey(@, Head(tables)) THEN @
            ELSE DictSet(@, Head(tables),
                         TableModel(sqlglot_model_wrapper(Head(tables), parsed,
                                                          dialect)))],
         Tail(tables), parsed, dialect)

RECURSIVE ImportTables(_, _, _, _)
\* The table loop of import_sql: one model per table, in order; an error of
\* sqlglot_model_wrapper leaves the loop with the models assigned so far
ImportTables(doc, tables, parsed, dialect) ==
  IF tables = <<>> THEN [doc |-> doc, raised |-> "none"]
  ELSE IF sqlglot_model_wrapper_raises(Head(tables), parsed)
         THEN [doc |-> doc, raised |-> "AttributeError"]
  ELSE ImportTables(
         [doc EXCEPT !.models =
            DictSet(@, Head(tables),
                    TableModel(sqlglot_model_wrapper(Head(tables), parsed, dialect)))],
         Tail(tables), parsed, dialect)

\* Server(type=server_type): every other attribute absent
ServerAttrs ==
  {"type", "description", "environment", "format", "project", "dataset",
   "path", "delimiter", "endpointUrl", "location", "account", "database",
   "schema_", "host", "port", "catalog", "topic", "http_path", "token",
   "driver", "roles", "storageAccount"}

NewServer(type) == [a \in ServerAttrs |-> IF a = "type" THEN type ELSE None]

\* sqlglot.parse_one(sql, read=...) raises for a dialect name sqlglot does
\* not know and for text that does not parse
parse_one_raises(source, read) ==
  \/ read \notin DialectsValues
  \/ source.parsed = None

\* import_sql(data_contract_specification, format, source, import_args):
\* the document as the call leaves it and what the call raised
import_sql(doc, source, import_args) ==
  LET dialect == to_dialect(import_args)
      server_type == to_server_type(source, dialect)
      doc1 == IF server_type # None
                THEN [doc EXCEPT !.servers =
                        Some(DictSet(Get(@), Get(server_type),
                                     NewServer(server_type)))]
                ELSE doc
  IN IF server_type # None /\ doc.servers = None
       THEN [doc |-> doc, raised |-> "TypeError"]                \* None[key] = ...
     ELSE IF ~source.exists
       THEN [doc |-> doc1, raised |-> "DataContractException"]   \* read_file
     ELSE IF dialect = None
       THEN [doc |-> doc1, raised |-> "DataContractException"]   \* None.lower()
     ELSE IF parse_one_raises(source, Lower(Get(dialect)))
       THEN [doc |-> doc1, raised |-> "DataContractException"]
     ELSE ImportTables(doc1, Get(source.parsed).tables, Get(source.parsed), dialect)

----------------------------------------------------------------------------
(* ODCS v3 exporter *)

\* Model.get_all_custom_properties() / Field.get_all_custom_properties():
\* the open extension map of the entity
get_all_custom_properties(entity) == entity.customProperties

\* [CustomProperty(property=key, value=value) for key, value in d.items()]
CustomPropertyList(d) ==
  [i \in DOMAIN d.order |-> [property |-> d.order[i], value |-> d.at[d.order[i]]]]

\* to_status without the conversion to lower case
to_status_case_sensitive(status) ==
  LET valid_statuses == {Chars("proposed"), Chars("draft"), Chars("active"),
                         Chars("deprecated"), Chars("retired")}
  IN IF status = None THEN Chars("draft")
     ELSE IF Get(status) \in valid_statuses THEN Get(status)
     ELSE Chars("draft")

\* to_status(status)
to_status(status) ==
  LET valid_statuses == {Chars("proposed"), Chars("draft"), Chars("active"),
                         Chars("deprecated"), Chars("retired")}
  IN IF status = None THEN Chars("draft")
     ELSE IF Lower(Get(status)) \in valid_statuses THEN Lower(Get(status))
     ELSE Chars("draft")

\* SchemaProperty(name=field_name): every other attribute absent
NewSchemaProperty(name) ==
  [name |-> name, logicalType |-> None, physicalType |-> None,
   description |-> None,
   customProperties |-> None, criticalDataElement |-> None,
   encryptedName |-> None, partitionKeyPosition |-> None,
   partitioned |-> None, primaryKey |-> None]

\* to_property(field_name, field)
to_property(field_name, field) ==
  [NewSchemaProperty(field_name) EXCEPT
     !.physicalType = field.type,
     !.description = field.description,
     !.customProperties =
        IF get_all_custom_properties(field).order # <<>>
          THEN Some(CustomPropertyList(get_all_custom_properties(field)))
          ELSE None]

\* to_properties(fields)
to_properties(fields) ==
  [i \in DOMAIN fields.order |->
     to_property(fields.order[i], fields.at[fields.order[i]])]

\* to_odcs_schema(model_key, model_value)
to_odcs_schema(model_key, model_value) ==
  [name |-> model_key, physicalName |-> model_key,
   logicalType |-> Some("object"), physicalType |-> model_value.type,
   description |-> model_value.description,
   properties |-> to_properties(model_value.fields),
   customProperties |->
     IF get_all_custom_properties(model_value).order # <<>>
       THEN Some(CustomPropertyList(get_all_custom_properties(model_value)))
       ELSE None]

\* The server attributes to_odcs_v3 copies when they are not None
CopiedServerAttrs ==
  {"environment", "account", "database", "schema_", "format", "project",
   "dataset", "path", "delimiter", "endpointUrl", "location", "host", "port",
   "catalog", "topic", "http_path", "token", "driver"}

\* The body of the server loop of to_odcs_v3 for one server
to_odcs_server(server_key, server_value) ==
  [a \in CopiedServerAttrs \cup {"server", "type", "description", "roles"} |->
     IF a = "server" THEN Some(server_key)
     ELSE IF a = "type"
       THEN IF server_value["type"] = None \/ server_value["type"] = Some("")
              THEN Some("") ELSE server_value["type"]
     ELSE IF a \in CopiedServerAttrs THEN server_value[a]
     ELSE IF a = "roles" /\ server_value["roles"] # None
       THEN Some([i \in DOMAIN Get(server_value["roles"]) |->
                    [role |-> Get(server_value["roles"])[i].name,
                     description |-> Get(server_value["roles"])[i].description]])
     ELSE None]

\* The SLA properties with the retention first
to_odcs_slas_retention_first(servicelevels) ==
  (IF servicelevels.retention # None
     THEN <<[property |-> "retention",
             value |-> Get(servicelevels.retention).period,
             unit |-> None]>>
     ELSE <<>>)
  \o
  (IF servicelevels.availability # None
     THEN <<[property |-> "generalAvailability",
             value |-> Get(servicelevels.availability).description,
             unit |-> None]>>
     ELSE <<>>)

\* The SLA properties to_odcs_v3 builds from the service levels
to_odcs_slas(servicelevels) ==
  (IF servicelevels.availability # None
     THEN <<[property |-> "generalAvailability",
             value |-> Get(servicelevels.availability).description,
             unit |-> None]>>
     ELSE <<>>)
  \o
  (IF servicelevels.retention # None
     THEN <<[property |-> "retention",
             value |-> Get(servicelevels.retention).period,
             unit |-> None]>>
     ELSE <<>>)

\* The support entries with the bare address as the URL of the email channel
to_odcs_support_bare_address(contact) ==
  (IF contact.email # None
     THEN <<[channel |-> "email", url |-> Get(contact.email)]>>
     ELSE <<>>)
  \o
  (IF contact.url # None
     THEN <<[channel |-> "other", url |-> Get(contact.url)]>>
     ELSE <<>>)

\* The support entries to_odcs_v3 builds from the contact
to_odcs_support(contact) ==
  (IF contact.email # None
     THEN <<[channel |-> "email", url |-> Chars("mailto:") \o Get(contact.email)]>>
     ELSE <<>>)
  \o
  (IF contact.url # None
     THEN <<[channel |-> "other", url |-> Get(contact.url)]>>
     ELSE <<>>)

\* The document-level custom properties: the owner, then the extra
\* attributes of info
to_odcs_custom_properties(info) ==
  (IF info.owner # None
     THEN <<[property |-> "owner", value |-> Get(info.owner)]>>
     ELSE <<>>)
  \o
  (IF info.model_extra # None
     THEN CustomPropertyList(Get(info.model_extra))
     ELSE <<>>)

\* Optional text .strip()
StripOpt(t) == IF t # None THEN Some(Strip(Get(t))) ELSE None

\* to_odcs_v3(data_contract_spec)
to_odcs_v3(data_contract_spec) ==
  LET info == data_contract_spec.info
      terms == data_contract_spec.terms
      slas == IF data_contract_spec.servicelevels # None
                THEN to_odcs_slas(Get(data_contract_spec.servicelevels))
                ELSE <<>>
      support == IF info.contact # None
                   THEN to_odcs_support(Get(info.contact)) ELSE <<>>
      servers == data_contract_spec.servers
      custom_properties == to_odcs_custom_properties(info)
  IN [apiVersion |-> "v3.0.1",
      kind |-> "DataContract",
      id |-> data_contract_spec.id,
      name |-> info.title,
      version |-> info.version,
      status |-> Some(to_status(info.status)),
      description |->
        IF terms # None
          THEN Some([purpose |-> StripOpt(Get(terms).description),
                     usage |-> StripOpt(Get(terms).usage),
                     limitations |-> StripOpt(Get(terms).limitations)])
          ELSE None,
      schema_ |->
        [i \in DOMAIN data_contract_spec.models.order |->
           to_odcs_schema(data_contract_spec.models.order[i],
                          data_contract_spec.models.at[data_contract_spec.models.order[i]])],
      slaProperties |-> IF Len(slas) > 0 THEN Some(slas) ELSE None,
      support |-> IF Len(support) > 0 THEN Some(support) ELSE None,
      servers |->
        IF servers # None /\ Len(Get(servers).order) > 0
          THEN Some([i \in DOMAIN Get(servers).order |->
                       to_odcs_server(Get(servers).order[i],
                                      Get(servers).at[Get(servers).order[i]])])
          ELSE None,
      customProperties |->
        IF Len(custom_properties) > 0 THEN Some(custom_properties) ELSE None]

----------------------------------------------------------------------------
(* Quality rules *)

\* The attributes of a DCS Quality and of an ODCS DataQuality
QualityAttrs ==
  {"type", "description", "query", "mustBe", "mustNotBe", "mustBeGreaterThan",
   "mustBeGreaterThanOrEqualTo", "mustBeLessThan", "mustBeLessThanOrEqualTo",
   "mustBeBetween", "mustNotBeBetween", "engine", "implementation",
   "model_extra"}

DataQualityAttrs ==
  {"type", "description", "query", "mustBe", "mustNotBe", "mustBeGreaterThan",
   "mustBeGreaterOrEqualTo", "mustBeLessThan", "mustBeLessOrEqualTo",
   "mustBeBetween", "mustNotBeBetween", "engine", "implementation",
   "businessImpact", "dimension", "rule", "schedule", "scheduler", "severity",
   "method", "customProperties"}

\* The attributes both converters copy under the same name
SameNameAttrs ==
  {"description", "query", "mustBe", "mustNotBe", "mustBeGreaterThan",
   "mustBeLessThan", "mustBeBetween", "mustNotBeBetween", "engine",
   "implementation"}

\* DataQuality(type=...): every other attribute absent
NewDataQuality(type) ==
  [a \in DataQualityAttrs |-> IF a = "type" THEN type ELSE None]

\* Quality(type=...): every other attribute absent, no extra attribute
NewQuality(type) ==
  [a \in QualityAttrs |->
     IF a = "type" THEN type
     ELSE IF a = "model_extra" THEN EmptyDict
     ELSE None]

\* to_odcs_quality that copies the attributes under their own names only
to_odcs_quality_no_rename(quality) ==
  [a \in DataQualityAttrs |->
     IF a = "type" \/ a \in SameNameAttrs THEN quality[a] ELSE None]

\* to_odcs_quality(quality)
to_odcs_quality(quality) ==
  [a \in DataQualityAttrs |->
     IF a = "type" THEN quality["type"]
     ELSE IF a \in SameNameAttrs THEN quality[a]
     ELSE IF a = "mustBeGreaterOrEqualTo" THEN quality["mustBeGreaterThanOrEqualTo"]
     ELSE IF a = "mustBeLessOrEqualTo" THEN quality["mustBeLessThanOrEqualTo"]
     ELSE NewDataQuality(quality["type"])[a]]

\* to_odcs_quality_list(quality_list)
to_odcs_quality_list(quality_list) ==
  [i \in DOMAIN quality_list |-> to_odcs_quality(quality_list[i])]

\* The attributes convert_quality_list files in model_extra, in the order it
\* looks at them
ExtraAttrs ==
  <<"businessImpact", "dimension", "rule", "schedule", "scheduler",
    "severity", "method", "customProperties">>

\* The extras without the severity
quality_model_extra_no_severity(odcs_quality) ==
  LET present(a) == odcs_quality[a] # None /\ a # "severity"
      order == SelectSeq(ExtraAttrs, present)
  IN [order |-> order,
      at |-> [k \in {order[i] : i \in DOMAIN order} |->
                IF k = "customProperties"
                  THEN [i \in DOMAIN Get(odcs_quality[k]) |->
                          [property |-> Get(odcs_quality[k])[i].property,
                           value |-> Get(odcs_quality[k])[i].value]]
                  ELSE Get(odcs_quality[k])]]

\* quality.model_extra as convert_quality_list fills it for one rule
quality_model_extra(odcs_quality) ==
  LET present(a) == odcs_quality[a] # None
      order == SelectSeq(ExtraAttrs, present)
  IN [order |-> order,
      at |-> [k \in {order[i] : i \in DOMAIN order} |->
                IF k = "customProperties"
                  THEN [i \in DOMAIN Get(odcs_quality[k]) |->
                          [property |-> Get(odcs_quality[k])[i].property,
                           value |-> Get(odcs_quality[k])[i].value]]
                  ELSE Get(odcs_quality[k])]]

\* The body of the loop of convert_quality_list for one rule
convert_quality(odcs_quality) ==
  [a \in QualityAttrs |->
     IF a = "type" THEN odcs_quality["type"]
     ELSE IF a \in SameNameAttrs THEN odcs_quality[a]
     ELSE IF a = "mustBeGreaterThanOrEqualTo" THEN odcs_quality["mustBeGreaterOrEqualTo"]
     ELSE IF a = "mustBeLessThanOrEqualTo" THEN odcs_quality["mustBeLessOrEqualTo"]
     ELSE IF a = "model_extra" THEN quality_model_extra(odcs_quality)
     ELSE NewQuality(odcs_quality["type"])[a]]

\* convert_quality_list(odcs_quality_list)
convert_quality_list(odcs_quality_list) ==
  IF odcs_quality_list = None THEN <<>>
  ELSE [i \in DOMAIN Get(odcs_quality_list) |->
          convert_quality(Get(odcs_quality_list)[i])]

----------------------------------------------------------------------------
(* ODCS v3 importer *)

\* What an f-string writes for a value: the text, or None for no value
FormatOpt(o) == IF o = None THEN Chars("None") ELSE Get(o)

\* Info(): every attribute of a new Info is absent, no extra attribute
NewInfo ==
  [title |-> None, version |-> None, status |-> None, description |-> None,
   owner |-> None, contact |-> None, model_extra |-> Some(EmptyDict)]

\* Terms(): every attribute of a new Terms is absent
NewTerms ==
  [description |-> None, usage |-> None, limitations |-> None, billing |-> None]

\* entity.add_custom_property(key, value)
add_custom_property(entity, key, value) ==
  [entity EXCEPT !.customProperties = DictSet(@, key, value)]

RECURSIVE get_owner(_)
\* get_owner(odcs_custom_properties)
get_owner(odcs_custom_properties) ==
  IF odcs_custom_properties = None \/ odcs_custom_properties = Some(<<>>)
    THEN None
  ELSE IF Head(Get(odcs_custom_properties)).property = Chars("owner")
    THEN Some(Head(Get(odcs_custom_properties)).value)
  ELSE get_owner(Some(Tail(Get(odcs_custom_properties))))

\* import_info(odcs)
import_info(odcs) ==
  LET owner == get_owner(odcs.customProperties)
      extra1 == IF odcs.dataProduct # None
                  THEN DictSet(EmptyDict, "dataProduct", Get(odcs.dataProduct))
                  ELSE EmptyDict
      extra2 == IF odcs.tenant # None
                  THEN DictSet(extra1, "tenant", Get(odcs.tenant))
                  ELSE extra1
  IN [NewInfo EXCEPT
        !.title = IF odcs.name # None THEN odcs.name ELSE Some(""),
        !.version = IF odcs.version # None THEN odcs.version ELSE @,
        !.description =
           IF odcs.description # None /\ Get(odcs.description).purpose # None
             THEN Get(odcs.description).purpose ELSE @,
        !.owner = IF owner # None THEN owner ELSE @,
        !.model_extra = Some(extra2)]

\* import_server_roles(roles): the list it builds is never returned
import_server_roles(roles) ==
  IF roles = None THEN None
  ELSE LET result == [i \in DOMAIN Get(roles) |->
                        [name |-> Get(roles)[i].role,
                         description |-> Get(roles)[i].description]]
       IN None

\* Where (?:@|://) matches at position i of the text: the position after the
\* separator, or 0
SeparatorEnd(t, i) ==
  IF t[i] = "@" THEN i + 1
  ELSE IF i + 2 <= Len(t) /\ SubSeq(t, i, i + 2) = <<":", "/", "/">> THEN i + 3
  ELSE 0

\* The first dot at or after position i of the text, or 0
NextDot(t, i) ==
  LET dots == {j \in i..Len(t) : t[j] = "."}
  IN IF dots = {} THEN 0 ELSE CHOOSE j \in dots : \A k \in dots : j <= k

\* (?:@|://)([^.]+)\. matches at position i of the text
MatchesAt(t, i) ==
  /\ SeparatorEnd(t, i) # 0
  /\ NextDot(t, SeparatorEnd(t, i)) > SeparatorEnd(t, i)

\* re.search(r"(?:@|://)([^.]+)\.", location, re.IGNORECASE): the match
\* object of the leftmost match, or None
re_search(location) ==
  LET starts == {i \in DOMAIN location : MatchesAt(location, i)}
  IN IF starts = {} THEN None
     ELSE LET i == CHOOSE x \in starts : \A y \in starts : x <= y
              from == SeparatorEnd(location, i)
              dot == NextDot(location, from)
          IN Some([kind |-> "re.Match",
                   group |-> <<SubSeq(location, i, dot),
                               SubSeq(location, from, dot - 1)>>])

\* re.search raises TypeError for a location that is None
import_server_raises(odcs_server) ==
  odcs_server["type"] = Some("azure") /\ odcs_server["location"] = None

\* The body of the loop of import_servers for one named server
import_server(odcs_server) ==
  [a \in ServerAttrs |->
     IF a = "roles" THEN import_server_roles(odcs_server["roles"])
     ELSE IF a = "storageAccount"
       THEN IF odcs_server["type"] = Some("azure")
              THEN re_search(Get(odcs_server["location"])) ELSE None
     ELSE IF a \in DOMAIN odcs_server THEN odcs_server[a]
     ELSE None]

RECURSIVE ImportServerLoop(_, _)
\* The loop of import_servers: a server without a name is skipped, a later
\* server replaces an earlier one of the same name
ImportServerLoop(servers, odcs_servers) ==
  IF odcs_servers = <<>> THEN [ret |-> Some(servers), raised |-> "none"]
  ELSE IF Head(odcs_servers)["server"] = None
    THEN ImportServerLoop(servers, Tail(odcs_servers))
  ELSE IF import_server_raises(Head(odcs_servers))
    THEN [ret |-> None, raised |-> "TypeError"]
  ELSE ImportServerLoop(DictSet(servers, Get(Head(odcs_servers)["server"]),
                                import_server(Head(odcs_servers))),
                        Tail(odcs_servers))

\* import_servers(odcs): what it returns and what it raised
import_servers(odcs) ==
  IF odcs.servers = None THEN [ret |-> None, raised |-> "none"]
  ELSE ImportServerLoop(EmptyDict, Get(odcs.servers))

\* import_terms(odcs)
import_terms(odcs) ==
  IF odcs.description = None THEN None
  ELSE LET description == Get(odcs.description)
       IN IF \/ description.usage # None
             \/ description.limitations # None
             \/ odcs.price # None
            THEN Some([NewTerms EXCEPT
                         !.usage = description.usage,
                         !.limitations = description.limitations,
                         !.billing =
                            IF odcs.price # None
                              THEN Some(FormatOpt(Get(odcs.price).priceAmount)
                                        \o <<" ">>
                                        \o FormatOpt(Get(odcs.price).priceCurrency)
                                        \o <<" ", "/", " ">>
                                        \o FormatOpt(Get(odcs.price).priceUnit))
                              ELSE None])
            ELSE None

\* next((p for p in sla_properties if p.property == name), None)
FirstSla(sla_properties, name) ==
  LET at == {i \in DOMAIN sla_properties : sla_properties[i].property = name}
  IN IF at = {} THEN None
     ELSE Some(sla_properties[CHOOSE i \in at : \A j \in at : i <= j])

\* import_servicelevels(odcs), for SLA values that are texts
import_servicelevels(odcs) ==
  LET sla_properties == IF odcs.slaProperties # None
                          THEN Get(odcs.slaProperties) ELSE <<>>
      availability == FirstSla(sla_properties, "generalAvailability")
      retention == FirstSla(sla_properties, "retention")
  IN IF availability # None \/ retention # None
       THEN Some([availability |->
                    IF availability # None
                      THEN Some([description |-> Get(availability).value])
                      ELSE None,
                  retention |->
                    IF retention # None
                      THEN Some([period |->
                                   Some(FormatOpt(Get(retention).value)
                                        \o FormatOpt(Get(retention).unit))])
                      ELSE None])
       ELSE None

\* get_server_type(odcs): what it returns and what it raised
get_server_type(odcs) ==
  LET servers == import_servers(odcs)
  IN IF servers.raised # "none" THEN [ret |-> None, raised |-> servers.raised]
     ELSE IF servers.ret = None \/ Len(Get(servers.ret).order) = 0
       THEN [ret |-> None, raised |-> "none"]
     ELSE [ret |-> Values(Get(servers.ret))[1]["type"], raised |-> "none"]

RECURSIVE AddCustomProperties(_, _)
\* for custom_property in customProperties: entity.add_custom_property(...)
AddCustomProperties(entity, custom_properties) ==
  IF custom_properties = <<>> THEN entity
  ELSE AddCustomProperties(
         add_custom_property(entity, Head(custom_properties).property,
                             Head(custom_properties).value),
         Tail(custom_properties))

\* The body of the loop of import_fields for one property
import_field(odcs_property) ==
  LET field == [NewField EXCEPT !.type = odcs_property.physicalType,
                                !.description = odcs_property.description]
  IN IF odcs_property.customProperties # None
       THEN AddCustomProperties(field, Get(odcs_property.customProperties))
       ELSE field

RECURSIVE ImportFieldLoop(_, _)
ImportFieldLoop(result, odcs_properties) ==
  IF odcs_properties = <<>> THEN result
  ELSE ImportFieldLoop(DictSet(result, Head(odcs_properties).name,
                               import_field(Head(odcs_properties))),
                       Tail(odcs_properties))

\* import_fields(odcs_properties, custom_type_mappings, server_type): the
\* mappings and the server type are not looked at
import_fields(odcs_properties, custom_type_mappings, server_type) ==
  IF odcs_properties = None THEN EmptyDict
  ELSE ImportFieldLoop(EmptyDict, Get(odcs_properties))

RECURSIVE CustomTypeMappingLoop(_, _)
CustomTypeMappingLoop(result, odcs_custom_properties) ==
  IF odcs_custom_properties = <<>> THEN result
  ELSE LET prop == Head(odcs_custom_properties)
       IN CustomTypeMappingLoop(
            IF StartsWith(prop.property, Chars("dc_mapping_"))
              THEN DictSet(result,
                           SubSeq(prop.property, 12, Len(prop.property)),
                           prop.value)
              ELSE result,
            Tail(odcs_custom_properties))

\* get_custom_type_mappings(odcs_custom_properties)
get_custom_type_mappings(odcs_custom_properties) ==
  IF odcs_custom_properties = None THEN EmptyDict
  ELSE CustomTypeMappingLoop(EmptyDict, Get(odcs_custom_properties))

\* DATACONTRACT_TYPES: the type names of the Data Contract Specification
DATACONTRACT_TYPES ==
  {Chars(t) : t \in {"string", "text", "varchar", "number", "decimal",
                     "numeric", "int", "integer", "long", "bigint", "float",
                     "double", "boolean", "timestamp", "timestamp_tz",
                     "timestamp_ntz", "date", "array", "bytes", "object",
                     "record", "struct", "null", "variant", "time"}}

\* map_type(odcs_type, custom_mappings)
map_type(odcs_type, custom_mappings) ==
  IF odcs_type = None THEN None
  ELSE LET t == Lower(Get(odcs_type))
       IN IF t \in DATACONTRACT_TYPES THEN Some(t)
          ELSE IF HasKey(custom_mappings, t) THEN Some(custom_mappings.at[t])
          ELSE None

\* The body of the loop of import_models for one schema object
import_model(odcs_schema, custom_type_mappings) ==
  LET model == [type |-> odcs_schema.physicalType,
                description |-> odcs_schema.description,
                tags |-> None, title |-> Some(odcs_schema.name),
                fields |-> import_fields(odcs_schema.properties,
                                         custom_type_mappings, None),
                customProperties |-> EmptyDict]
  IN IF odcs_schema.customProperties # None
       THEN AddCustomProperties(model, Get(odcs_schema.customProperties))
       ELSE model

RECURSIVE ImportModelLoop(_, _, _)
ImportModelLoop(result, odcs_schemas, custom_type_mappings) ==
  IF odcs_schemas = <<>> THEN result
  ELSE ImportModelLoop(DictSet(result, Head(odcs_schemas).name,
                               import_model(Head(odcs_schemas),
                                            custom_type_mappings)),
                       Tail(odcs_schemas), custom_type_mappings)

\* import_models(odcs)
import_models(odcs) ==
  LET custom_type_mappings == get_custom_type_mappings(odcs.customProperties)
      odcs_schemas == IF odcs.schema_ # None THEN Get(odcs.schema_) ELSE <<>>
  IN ImportModelLoop(EmptyDict, odcs_schemas, custom_type_mappings)

\* import_tags(odcs)
import_tags(odcs) == IF odcs.tags = None THEN None ELSE odcs.tags

\* import_from_odcs(data_contract_specification, odcs): the document as the
\* call leaves it and what the call raised
import_from_odcs(doc, odcs) ==
  LET doc1 == [doc EXCEPT !.id = odcs.id, !.info = import_info(odcs)]
      servers == import_servers(odcs)
  IN IF servers.raised # "none"
       THEN [doc |-> doc1, raised |-> servers.raised]
       ELSE [doc |-> [doc1 EXCEPT
                        !.servers = servers.ret,
                        !.terms = import_terms(odcs),
                        !.servicelevels = import_servicelevels(odcs),
                        !.models = import_models(odcs),
                        !.tags = import_tags(odcs)],
             raised |-> "none"]

----------------------------------------------------------------------------
(* Object-storage readers *)

\* os.getenv(name): the value of the variable, or None when it is not set
getenv(env, name) == env[name]

\* The outcome of a call that raised DataContractException(name=...); the
\* name is kept as the pieces of its text
Raised(exception, name) == [raised |-> exception, name |-> name, fs |-> None]

\* raise DataContractException(..., original_exception=e) where the import
\* succeeded: e is a local name that no except clause has bound, and reading
\* it raises UnboundLocalError before the exception is built
RaiseWithUnboundE(name) == Raised("UnboundLocalError", <<>>)

\* az_fs(az_storageAccount), with whether adlfs can be imported and the
\* environment of the process
az_fs(az_storageAccount, installed, env) ==
  LET az_client_id == getenv(env, "DATACONTRACT_AZURE_CLIENT_ID")
      az_client_secret == getenv(env, "DATACONTRACT_AZURE_CLIENT_SECRET")
      az_tenant_id == getenv(env, "DATACONTRACT_AZURE_TENANT_ID")
  IN IF ~installed
       THEN Raised("DataContractException", <<"az extra missing">>)
     ELSE IF az_client_id = None
       THEN RaiseWithUnboundE(<<"az env. variable ",
                                "DATACONTRACT_AZURE_CLIENT_ID", " missing">>)
     ELSE IF az_client_secret = None
       THEN RaiseWithUnboundE(<<"az env. variable ",
                                "DATACONTRACT_AZURE_CLIENT_SECRET", " missing">>)
     ELSE IF az_tenant_id = None
       THEN RaiseWithUnboundE(<<"az env. variable ",
                                "DATACONTRACT_AZURE_TENANT_ID", " missing">>)
     ELSE [raised |-> "none", name |-> <<>>,
           fs |-> Some([account_name |-> az_storageAccount,
                        client_id |-> az_client_id,
                        client_secret |-> az_client_secret,
                        tenant_id |-> az_tenant_id,
                        anon |-> (az_client_id = None)])]

\* s3_fs(s3_endpoint_url), with whether s3fs can be imported and the
\* environment of the process
s3_fs(s3_endpoint_url, installed, env) ==
  LET aws_access_key_id == getenv(env, "DATACONTRACT_S3_ACCESS_KEY_ID")
      aws_secret_access_key == getenv(env, "DATACONTRACT_S3_SECRET_ACCESS_KEY")
      aws_session_token == getenv(env, "DATACONTRACT_S3_SESSION_TOKEN")
  IN IF ~installed
       THEN Raised("DataContractException", <<"s3 extra missing">>)
     ELSE IF aws_access_key_id = None
       THEN RaiseWithUnboundE(<<"s3 env. variable ",
                                "DATACONTRACT_S3_ACCESS_KEY_ID", " missing">>)
     ELSE IF aws_secret_access_key = None
       THEN RaiseWithUnboundE(<<"s3 env. variable ",
                                "DATACONTRACT_S3_SECRET_ACCESS_KEY", " missing">>)
     ELSE IF aws_session_token = None
       THEN RaiseWithUnboundE(<<"s3 env. variable ",
                                "DATACONTRACT_S3_SESSION_TOKEN", " missing">>)
     ELSE [raised |-> "none", name |-> <<>>,
           fs |-> Some([key |-> aws_access_key_id,
                        secret |-> aws_secret_access_key,
                        token |-> aws_session_token,
                        anon |-> (aws_access_key_id = None),
                        endpoint_url |-> s3_endpoint_url])]

\* yield_az_files(run, az_storageAccount, az_location), up to the listing of
\* the files: what it raised, the client it built, whether fs.glob ran
yield_az_files(az_storageAccount, az_location, installed, env) ==
  LET r == az_fs(az_storageAccount, installed, env)
  IN [raised |-> r.raised, name |-> r.name, fs |-> r.fs,
      listed |-> (r.raised = "none")]

\* yield_s3_files(run, s3_endpoint_url, s3_location), up to the listing of
\* the files
yield_s3_files(s3_endpoint_url, s3_location, installed, env) ==
  LET r == s3_fs(s3_endpoint_url, installed, env)
  IN [raised |-> r.raised, name |-> r.name, fs |-> r.fs,
      listed |-> (r.raised = "none")]

----------------------------------------------------------------------------
(* Inputs of the model *)

\* The number of import_sql calls of one run
MaxImports == 1

\* import_args: None, a dictionary without the key, dialect None, and
\* dialect identifiers known to the registry, known to sqlglot only, unknown
ImportArgs ==
  {None, Some(<<>>), Some([k \in {"dialect"} |-> None])}
  \cup {Some([k \in {"dialect"} |-> Some(Chars(d))]) :
          d \in {"postgres", "sqlserver", "oracle", "duckdb", "bogus"}}

\* A column definition
Col(parent, name, kind_name, params, constraints) ==
  [parent |-> parent, name |-> name,
   kind |-> Some([name |-> Chars(kind_name),
                  params |-> [i \in DOMAIN params |-> Chars(params[i])]]),
   constraints |-> constraints, comment |-> None, comments |-> None,
   tags |-> None]

\* CREATE TABLE T (a INT, b INT, PRIMARY KEY (a, b))
StmtComposite ==
  [tables |-> <<"T">>,
   columns |-> <<Col("T", "a", "INT", <<>>, {}), Col("T", "b", "INT", <<>>, {})>>,
   primary_key |-> <<"a", "b">>, comment |-> None, tags |-> None]

\* CREATE TABLE T (id BIGINT NOT NULL, name VARCHAR(10), PRIMARY KEY (id))
StmtSingle ==
  [tables |-> <<"T">>,
   columns |-> <<Col("T", "id", "BIGINT", <<>>, {"NotNullColumnConstraint"}),
                 Col("T", "name", "VARCHAR", <<"10">>, {})>>,
   primary_key |-> <<"id">>, comment |-> Some(Chars("the key")), tags |-> None]

\* CREATE TABLE U (id INT PRIMARY KEY COMMENT ' an id ', amount NUMERIC(10,2),
\*                 g GEOGRAPHY, t_id INT REFERENCES T (id))
StmtInline ==
  [tables |-> <<"U", "T">>,
   columns |-> <<[Col("U", "id", "INT", <<>>, {"PrimaryKeyColumnConstraint"})
                    EXCEPT !.comment = Some(Chars(" an id "))],
                 Col("U", "amount", "DECIMAL", <<"10", "2">>, {}),
                 Col("U", "g", "GEOGRAPHY", <<>>, {})>>,
   primary_key |-> <<>>, comment |-> None, tags |-> None]

\* CREATE TABLE U (x, total FLOAT(max)): the first column has no type
StmtTypeless ==
  [tables |-> <<"U">>,
   columns |-> <<[Col("U", "x", "INT", <<>>, {}) EXCEPT !.kind = None],
                 Col("U", "total", "FLOAT", <<"max">>, {})>>,
   primary_key |-> <<>>, comment |-> None, tags |-> None]

\* The source files: a path with no file, a file that does not parse, and a
\* file for each statement
Sources ==
  {[exists |-> FALSE, parsed |-> None], [exists |-> TRUE, parsed |-> None]}
  \cup {[exists |-> TRUE, parsed |-> Some(st)] :
          st \in {StmtComposite, StmtSingle, StmtInline, StmtTypeless}}

\* DataContractSpecification as the caller builds it before a conversion
BaseInfo ==
  [title |-> Some("orders"), version |-> Some("1.0.0"), status |-> None,
   description |-> None, owner |-> None, contact |-> None,
   model_extra |-> None]

BaseDoc ==
  [id |-> Some("urn:orders"), info |-> BaseInfo, terms |-> None,
   servicelevels |-> None, servers |-> Some(EmptyDict), models |-> EmptyDict,
   tags |-> None]

TermsOptions ==
  {None}
  \cup {Some([description |-> d, usage |-> u, limitations |-> l, billing |-> None]) :
          d \in {None, Some(Chars("purpose"))},
          u \in {None, Some(Chars(" usage "))},
          l \in {None, Some(Chars("limits"))}}

ServiceLevelOptions ==
  {None}
  \cup {Some([availability |-> a, retention |-> r]) :
          a \in {None, Some([description |-> None]),
                 Some([description |-> Some("99.9%")])},
          r \in {None, Some([period |-> Some(Chars("1y"))])}}

ContactOptions ==
  {None}
  \cup {Some([email |-> e, url |-> u]) :
          e \in {None, Some(Chars("a@b.c"))}, u \in {None, Some(Chars("http://x"))}}

InfoOptions ==
  {[BaseInfo EXCEPT !.contact = c] : c \in ContactOptions}
  \cup {[BaseInfo EXCEPT !.status = Some(Chars(st))] : st \in {"ACTIVE", "bogus"}}
  \cup {[BaseInfo EXCEPT !.owner = Some("team"),
                         !.model_extra = Some(Dict1("tenant", "acme"))]}

ServersOptions ==
  {None, Some(EmptyDict),
   Some(Dict1("lake", [NewServer(None) EXCEPT !["environment"] = Some("prod")])),
   Some(Dict1("postgres",
              [NewServer(Some("postgres")) EXCEPT
                 !["host"] = Some("db"), !["port"] = Some("5432"),
                 !["roles"] = Some(<<[name |-> Some("reader"),
                                      description |-> None]>>)]))}

ModelsOptions ==
  {EmptyDict,
   Dict1("T", [type |-> Some("view"), description |-> Some(Chars("purpose")),
               tags |-> None, title |-> None,
               fields |-> Dict1("old", [NewField EXCEPT
                                          !.description = Some(Chars("x"))]),
               customProperties |-> Dict1("layer", "gold")]),
   Dict1("V", [type |-> None, description |-> None, tags |-> None,
               title |-> None,
               fields |-> Dict1("c", [NewField EXCEPT
                                        !.type = Some("string"),
                                        !.customProperties = Dict1("pii", "yes")]),
               customProperties |-> EmptyDict])}

InitialDocs ==
  {[BaseDoc EXCEPT !.terms = t] : t \in TermsOptions}
  \cup {[BaseDoc EXCEPT !.servicelevels = s] : s \in ServiceLevelOptions}
  \cup {[BaseDoc EXCEPT !.info = i] : i \in InfoOptions}
  \cup {[BaseDoc EXCEPT !.servers = s] : s \in ServersOptions}
  \cup {[BaseDoc EXCEPT !.models = m] : m \in ModelsOptions}

----------------------------------------------------------------------------
(* The conversion pipeline: a document is built, SQL sources are imported  *)
(* into it, and it is exported to ODCS.                                    *)

Init ==
  /\ dcs \in InitialDocs
  /\ before = dcs
  /\ imp = None
  /\ call = [op |-> "none"]
  /\ n = 0
  /\ fn = [op |-> "none", done |-> TRUE]

\* import_sql(dcs, "sql", source, import_args)
ImportSql ==
  /\ n < MaxImports
  /\ \E import_args \in ImportArgs, source \in Sources :
       LET r == import_sql(dcs, source, import_args)
       IN /\ dcs' = r.doc
          /\ before' = dcs
          /\ imp' = Some([import_args |-> import_args, source |-> source,
                          raised |-> r.raised])
          /\ call' = [op |-> "import_sql", raised |-> r.raised]
          /\ n' = n + 1
  /\ UNCHANGED fn

\* to_odcs_v3(dcs)
ToOdcsV3 ==
  /\ call' = [op |-> "to_odcs_v3", odcs |-> to_odcs_v3(dcs)]
  /\ UNCHANGED <<dcs, before, imp, n, fn>>

Next == ImportSql \/ ToOdcsV3

Spec == Init /\ [][Next]_vars

----------------------------------------------------------------------------
(* ODCS documents are imported into a document and the document is         *)
(* exported to ODCS again.                                                 *)

\* The number of import_from_odcs calls of one run
MaxOdcsImports == 2

\* The attributes of an ODCS server that import_servers reads and the ODCS
\* Server class has
OdcsServerAttrs ==
  {"server", "type", "description", "environment", "format", "project",
   "dataset", "path", "delimiter", "endpointUrl", "location", "account",
   "database", "schema_", "host", "port", "catalog", "roles"}

\* An ODCS server with a name, a type and a location
OdcsServer(server, type, location) ==
  [a \in OdcsServerAttrs |->
     IF a = "server" THEN server
     ELSE IF a = "type" THEN type
     ELSE IF a = "location" THEN location
     ELSE None]

\* Server lists that differ in the names of their entries: one entry, two
\* entries of different names, a first entry without a name, two entries of
\* one name, an entry without a type, an entry with roles
NamedServerLists ==
  {None, Some(<<>>),
   Some(<<OdcsServer(Some("db"), Some("postgres"), None)>>),
   Some(<<OdcsServer(Some("db"), Some("postgres"), None),
          OdcsServer(Some("dwh"), Some("snowflake"), None)>>),
   Some(<<OdcsServer(None, Some("postgres"), None),
          OdcsServer(Some("dwh"), Some("snowflake"), None)>>),
   Some(<<OdcsServer(Some("db"), Some("postgres"), None),
          OdcsServer(Some("db"), Some("snowflake"), None)>>),
   Some(<<OdcsServer(None, Some("postgres"), None)>>),
   Some(<<OdcsServer(Some("db"), None, None),
          OdcsServer(Some("dwh"), Some("snowflake"), None)>>),
   Some(<<[OdcsServer(Some("db"), Some("postgres"), None) EXCEPT
             !["host"] = Some("h"),
             !["roles"] = Some(<<[role |-> Some("reader"),
                                  description |-> None]>>)]>>)}

\* The locations of the object-storage servers: none, locations the pattern
\* matches after :// and after @, and locations it does not match
Locations ==
  {None} \cup
  {Some(Chars(l)) : l \in {"https://acct.blob.core.windows.net/orders",
                           "container@acct.dfs.core.windows.net",
                           "container/orders/*.parquet",
                           "abfss://.net", ""}}

\* Server lists with one object-storage server, of the azure type and of
\* others
StorageServerLists ==
  {Some(<<OdcsServer(Some("lake"), t, l)>>) :
     t \in {Some("azure"), Some("s3"), Some("AZURE"), None}, l \in Locations}

\* An ODCS schema property and an ODCS schema object
OdcsProperty(name, physicalType, description) ==
  [NewSchemaProperty(name) EXCEPT !.physicalType = physicalType,
                                  !.logicalType = physicalType,
                                  !.description = description]

OdcsSchema(name, properties) ==
  [name |-> name, physicalName |-> name, logicalType |-> Some("object"),
   physicalType |-> Some("table"), description |-> None,
   properties |-> properties, customProperties |-> None]

\* An ODCS document with an id, a name, a version and a status, nothing else
BaseOdcs ==
  [apiVersion |-> "v3.0.1", kind |-> "DataContract",
   id |-> Some("urn:orders"), name |-> Some("orders"),
   version |-> Some("1.0.0"), status |-> Some(Chars("active")),
   description |-> None, price |-> None, dataProduct |-> None,
   tenant |-> None, slaProperties |-> None, support |-> None,
   servers |-> None, schema_ |-> None, customProperties |-> None,
   tags |-> None]

\* Headers: no name, no version, another status, no status
OdcsHeaders ==
  {BaseOdcs, [BaseOdcs EXCEPT !.name = None], [BaseOdcs EXCEPT !.version = None],
   [BaseOdcs EXCEPT !.status = Some(Chars("draft"))],
   [BaseOdcs EXCEPT !.status = None],
   [BaseOdcs EXCEPT !.dataProduct = Some("sales"), !.tenant = Some("acme"),
                    !.tags = Some(<<"pii">>)]}

\* Descriptions: a purpose alone, a usage alone, all three texts with a price
OdcsDescriptions ==
  {[BaseOdcs EXCEPT !.description =
      Some([purpose |-> Some(Chars("purpose")), usage |-> None,
            limitations |-> None])],
   [BaseOdcs EXCEPT !.description =
      Some([purpose |-> None, usage |-> Some(Chars(" usage ")),
            limitations |-> None])],
   [BaseOdcs EXCEPT
      !.description =
        Some([purpose |-> Some(Chars("purpose")), usage |-> Some(Chars(" usage ")),
              limitations |-> Some(Chars("limits"))]),
      !.price = Some([priceAmount |-> Some(Chars("10")),
                      priceCurrency |-> Some(Chars("USD")),
                      priceUnit |-> None])]}

\* SLA properties: availability, retention with and without a unit, both
\* after a property that is not imported; support channels
OdcsSlaProperty(property, value, unit) ==
  [property |-> property, value |-> value, unit |-> unit]

OdcsServiceLevels ==
  {[BaseOdcs EXCEPT !.slaProperties = Some(sla)] :
     sla \in {<<OdcsSlaProperty("generalAvailability", Some(Chars("99.9%")), None)>>,
              <<OdcsSlaProperty("retention", Some(Chars("1")), Some(Chars("y")))>>,
              <<OdcsSlaProperty("retention", Some(Chars("1y")), None)>>,
              <<OdcsSlaProperty("latency", Some(Chars("4")), Some(Chars("d"))),
                OdcsSlaProperty("generalAvailability", Some(Chars("99.9%")), None),
                OdcsSlaProperty("retention", Some(Chars("1")), Some(Chars("y")))>>}}
  \cup {[BaseOdcs EXCEPT !.support =
           Some(<<[channel |-> "email", url |-> Chars("mailto:a@b.c")],
                  [channel |-> "other", url |-> Chars("http://x")]>>)]}

\* Schemas: no property list, one object, two objects, two objects of one
\* name, an object with custom properties
OdcsSchemas ==
  {[BaseOdcs EXCEPT !.schema_ = Some(sc)] :
     sc \in {<<>>,
             <<OdcsSchema("T", None)>>,
             <<OdcsSchema("T", Some(<<OdcsProperty("id", Some(Chars("BIGINT")), None),
                                      OdcsProperty("name", Some(Chars("VARCHAR(10)")),
                                                   Some(Chars("the name")))>>))>>,
             <<OdcsSchema("T", Some(<<OdcsProperty("id", Some(Chars("BIGINT")), None)>>)),
               OdcsSchema("U", Some(<<OdcsProperty("t_id", None, None)>>))>>,
             <<OdcsSchema("T", Some(<<OdcsProperty("id", Some(Chars("BIGINT")), None)>>)),
               OdcsSchema("T", Some(<<OdcsProperty("code", Some(Chars("string")), None)>>))>>,
             <<[OdcsSchema("T", Some(<<[OdcsProperty("id", Some(Chars("BIGINT")), None)
                                          EXCEPT !.customProperties =
                                            Some(<<[property |-> "pii",
                                                    value |-> "yes"]>>)]>>))
                  EXCEPT !.customProperties =
                    Some(<<[property |-> "layer", value |-> "gold"]>>),
                         !.description = Some(Chars("orders"))]>>}}

\* Documents with custom properties: an owner, and type aliases with
\* properties of the aliased type, of a canonical type that has an alias, and
\* of a type without alias
OdcsAliased ==
  {[BaseOdcs EXCEPT
      !.customProperties = Some(cp),
      !.schema_ =
        Some(<<OdcsSchema("T", Some(<<OdcsProperty("amount", Some(Chars("money")), None),
                                      OdcsProperty("code", Some(Chars("string")), None),
                                      OdcsProperty("g", Some(Chars("geometry")), None)>>))>>)] :
     cp \in {<<[property |-> Chars("owner"), value |-> "team"]>>,
             <<[property |-> Chars("dc_mapping_money"), value |-> Chars("decimal")]>>,
             <<[property |-> Chars("dc_mapping_money"), value |-> Chars("decimal")],
               [property |-> Chars("dc_mapping_string"), value |-> Chars("text")]>>}}
  \cup {[BaseOdcs EXCEPT
           !.schema_ =
             Some(<<OdcsSchema("T", Some(<<OdcsProperty("amount", Some(Chars("money")),
                                                        None)>>))>>)]}

OdcsServers ==
  {[BaseOdcs EXCEPT !.servers = sv] :
     sv \in {Some(<<OdcsServer(Some("db"), Some("postgres"), None),
                    OdcsServer(Some("dwh"), Some("snowflake"), None)>>),
             Some(<<OdcsServer(Some("lake"), Some("azure"), None)>>),
             Some(<<OdcsServer(Some("lake"), Some("azure"),
                               Some(Chars("https://acct.blob.core.windows.net/orders")))>>)}}

\* The ODCS documents imported
OdcsDocs ==
  OdcsHeaders \cup OdcsDescriptions \cup OdcsServiceLevels \cup OdcsSchemas
  \cup OdcsAliased \cup OdcsServers

InitOdcs ==
  /\ dcs = BaseDoc
  /\ before = dcs
  /\ imp = None
  /\ call = [op |-> "none"]
  /\ n = 0
  /\ fn = [op |-> "none", done |-> TRUE]

\* import_from_odcs(dcs, odcs)
ImportFromOdcs ==
  /\ n < MaxOdcsImports
  /\ \E odcs \in OdcsDocs :
       LET r == import_from_odcs(dcs, odcs)
       IN /\ dcs' = r.doc
          /\ before' = dcs
          /\ imp' = Some([odcs |-> odcs, raised |-> r.raised])
          /\ call' = [op |-> "import_from_odcs", raised |-> r.raised]
          /\ n' = n + 1
  /\ UNCHANGED fn

NextOdcs == ImportFromOdcs \/ ToOdcsV3

SpecOdcs == InitOdcs /\ [][NextOdcs]_vars

----------------------------------------------------------------------------
(* The pure functions, each applied to inputs drawn from bounded sets *)

\* The type names the tokens are built from: every name the resolver knows
\* and some it does not
TypeNames ==
  {"varchar", "char", "string", "nchar", "text", "nvarchar", "ntext", "int",
   "integer", "tinyint", "smallint", "bigint", "float", "double", "real",
   "number", "numeric", "decimal", "bool", "boolean", "bit", "binary",
   "varbinary", "date", "time", "timestamp", "timestamptz", "timestamp_tz",
   "timestamp with time zone", "timestamp_ltz", "timestampntz",
   "timestamp_ntz", "smalldatetime", "datetime", "datetime2",
   "datetimeoffset", "uniqueidentifier", "json", "xml",
   "geography", "interval", "money", "uuid"}

\* A name in lower case, in upper case, or capitalised
Casings(t) ==
  {t, Upper(t),
   IF t = <<>> THEN t ELSE <<UpperChar(t[1])>> \o SubSeq(t, 2, Len(t))}

\* The parameter lists a token may end with
ParamSuffixes == {Chars(""), Chars("(10)"), Chars("(10, 2)"), Chars("(max)")}

\* The type tokens: a name in some case, a parameter list, and possibly
\* blanks around them
TypeTokens ==
  LET bare == {c \o p : c \in UNION {Casings(Chars(nm)) : nm \in TypeNames},
                        p \in ParamSuffixes}
  IN bare \cup {<<" ">> \o t \o <<" ">> : t \in bare}

\* map_type_from_sql(sql_type)
MapTypeFromSql ==
  /\ fn.op = "map_type_from_sql"
  /\ ~fn.done
  /\ fn' = [op |-> fn.op, done |-> TRUE, sql_type |-> fn.sql_type,
            ret |-> map_type_from_sql(fn.sql_type)]
  /\ UNCHANGED <<dcs, before, imp, call, n>>

\* The integers the type parameters are written from
ParamValues == {0, 2, 10, 38}

RECURSIVE NumText(_)
\* str(p) of a natural number
NumText(p) ==
  IF p < 10 THEN <<Digits[p + 1]>>
  ELSE NumText(p \div 10) \o <<Digits[(p % 10) + 1]>>

\* Type parameters that are no non-negative integer literal
NonLiteralParams == {Chars("max"), Chars("-1")}

ParamTexts == {NumText(p) : p \in ParamValues} \cup NonLiteralParams

\* Parameter lists of up to three parameters
ParamLists ==
  {<<>>} \cup {<<p>> : p \in ParamTexts}
  \cup {<<p, q>> : p \in ParamTexts, q \in ParamTexts}
  \cup {<<p, p, p>> : p \in ParamTexts}

\* The type names of the columns whose size is extracted
SizedTypeNames ==
  {"DECIMAL", "NUMERIC", "FLOAT", "NUMBER", "VARCHAR", "CHAR", "NVARCHAR",
   "NCHAR", "TEXT", "INT", "DATE"}

SizedColumns ==
  {[parent |-> "T", name |-> "c",
    kind |-> Some([name |-> Chars(nm), params |-> ps]),
    constraints |-> {}, comment |-> None, comments |-> None, tags |-> None] :
     nm \in SizedTypeNames, ps \in ParamLists}

\* get_max_length(column) and get_precision_scale(column), as the column
\* loop of sqlglot_model_wrapper calls them
SizeOfColumn ==
  /\ fn.op = "size"
  /\ ~fn.done
  /\ fn' = [op |-> fn.op, done |-> TRUE, column |-> fn.column,
            maxLength |-> get_max_length(fn.column),
            precision |-> get_precision_scale(fn.column).precision,
            scale |-> get_precision_scale(fn.column).scale]
  /\ UNCHANGED <<dcs, before, imp, call, n>>

\* The dialect identifiers looked up: the registry's, in two spellings for
\* one of them, one that only sqlglot knows, and one nobody knows
DialectIds ==
  {"sqlserver", "postgres", "bigquery", "snowflake", "redshift", "oracle",
   "mysql", "databricks", "Snowflake", "duckdb", "bogus"}

\* The ODCS schema properties whose physical type is filed
PhysicalProperties ==
  {[NewSchemaProperty("c") EXCEPT !.physicalType = Some(Chars(t)),
                                  !.customProperties = cp] :
     t \in {"VARCHAR(10)", "DECIMAL(10, 2)"},
     cp \in {None, Some(<<[property |-> "pii", value |-> Chars("x")]>>)}}

\* One dialect through the registry in both directions: the key and the
\* server type the SQL importer derives from the identifier, the config the
\* ODCS importer builds for that server type, and what the ODCS exporter
\* reads from a config that holds the physical type under the key
DialectKeys ==
  /\ fn.op = "dialect_keys"
  /\ ~fn.done
  /\ LET dialect == to_dialect(Some([k \in {"dialect"} |-> Some(Chars(fn.id))]))
         key == to_physical_type_key(dialect)
         server_type == to_server_type("ddl.sql", dialect)
     IN fn' = [op |-> fn.op, done |-> TRUE, id |-> fn.id,
               odcs_property |-> fn.odcs_property,
               key |-> key,
               server_type |-> server_type,
               config |-> import_field_config(fn.odcs_property, server_type),
               read |-> to_physical_type(
                          Some(Dict1(key, Get(fn.odcs_property.physicalType))))]
  /\ UNCHANGED <<dcs, before, imp, call, n>>

\* The status texts normalised: absent, each valid status in three letter
\* cases, and texts that are no status
StatusTexts ==
  {None}
  \cup {Some(c) : c \in UNION {Casings(Chars(st)) :
                     st \in {"proposed", "draft", "active", "deprecated",
                             "retired", "bogus", ""}}}
  \cup {Some(Chars(" active "))}

\* to_status(status)
ToStatus ==
  /\ fn.op = "to_status"
  /\ ~fn.done
  /\ fn' = [op |-> fn.op, done |-> TRUE, status |-> fn.status,
            ret |-> to_status(fn.status)]
  /\ UNCHANGED <<dcs, before, imp, call, n>>

\* The comparison operators of a DCS quality rule
QualityOperators ==
  {"mustBe", "mustNotBe", "mustBeGreaterThan", "mustBeGreaterThanOrEqualTo",
   "mustBeLessThan", "mustBeLessThanOrEqualTo", "mustBeBetween",
   "mustNotBeBetween"}

\* A value for an operator: a number, or a pair of bounds
OperatorValue(a, v) ==
  IF a \in {"mustBeBetween", "mustNotBeBetween"} THEN Some(<<0, v>>) ELSE Some(v)

\* DCS quality rules: a rule with no operator, one with each single operator
\* (the value 0 included), and described SQL rules with both operators that
\* are renamed and with every operator
QualityRules ==
  {NewQuality(None), NewQuality(Some("text"))}
  \cup {[NewQuality(Some("sql")) EXCEPT ![a] = OperatorValue(a, v)] :
          a \in QualityOperators, v \in {0, 5}}
  \cup {[a \in QualityAttrs |->
           IF a = "type" THEN Some("sql")
           ELSE IF a = "description" THEN Some("row count")
           ELSE IF a = "query" THEN Some("SELECT COUNT(*) FROM T")
           ELSE IF a = "engine" THEN Some("soda")
           ELSE IF a = "implementation" THEN Some("checks for T")
           ELSE IF a = "model_extra" THEN EmptyDict
           ELSE IF a \in ops THEN OperatorValue(a, 7)
           ELSE None] :
          ops \in {{"mustBeGreaterThanOrEqualTo", "mustBeLessThanOrEqualTo"},
                   QualityOperators}}

\* Lists of up to two rules
QualityLists ==
  {<<>>} \cup {<<q>> : q \in QualityRules}
  \cup {<<q, r>> : q \in QualityRules, r \in QualityRules}

\* to_odcs_quality_list(quality_list), then convert_quality_list of its result
QualityRoundTrip ==
  /\ fn.op = "quality_round_trip"
  /\ ~fn.done
  /\ LET odcs_quality_list == to_odcs_quality_list(fn.quality_list)
     IN fn' = [op |-> fn.op, done |-> TRUE, quality_list |-> fn.quality_list,
               odcs_quality_list |-> odcs_quality_list,
               back |-> convert_quality_list(Some(odcs_quality_list))]
  /\ UNCHANGED <<dcs, before, imp, call, n>>

\* The attributes of an ODCS rule that have no attribute in a DCS rule
OdcsOnlyAttrs ==
  {"businessImpact", "dimension", "rule", "schedule", "scheduler", "severity",
   "method"}

\* ODCS quality rules: none of the extra attributes, each one alone, custom
\* properties (an empty list included), and all of them
OdcsQualityRules ==
  {NewDataQuality(Some("library")),
   [NewDataQuality(Some("sql")) EXCEPT !["mustBeGreaterOrEqualTo"] = Some(1),
                                        !["description"] = Some("row count")]}
  \cup {[NewDataQuality(Some("library")) EXCEPT ![a] = Some(a \o " value")] :
          a \in OdcsOnlyAttrs}
  \cup {[NewDataQuality(Some("library")) EXCEPT !["customProperties"] = cp] :
          cp \in {Some(<<>>),
                  Some(<<[property |-> "team", value |-> "a"],
                         [property |-> "tier", value |-> "gold"]>>)}}
  \cup {[a \in DataQualityAttrs |->
           IF a = "type" THEN Some("library")
           ELSE IF a \in OdcsOnlyAttrs THEN Some(a \o " value")
           ELSE IF a = "customProperties"
             THEN Some(<<[property |-> "team", value |-> "a"]>>)
           ELSE None]}

\* No list, and lists of up to two rules
OdcsQualityLists ==
  {None, Some(<<>>)} \cup {Some(<<q>>) : q \in OdcsQualityRules}
  \cup {Some(<<q, r>>) : q \in OdcsQualityRules, r \in OdcsQualityRules}

\* convert_quality_list(odcs_quality_list)
ConvertQualityList ==
  /\ fn.op = "convert_quality_list"
  /\ ~fn.done
  /\ fn' = [op |-> fn.op, done |-> TRUE,
            odcs_quality_list |-> fn.odcs_quality_list,
            ret |-> convert_quality_list(fn.odcs_quality_list)]
  /\ UNCHANGED <<dcs, before, imp, call, n>>

\* get_server_type(odcs)
GetServerType ==
  /\ fn.op = "get_server_type"
  /\ ~fn.done
  /\ LET r == get_server_type([BaseOdcs EXCEPT !.servers = fn.servers])
     IN fn' = [op |-> fn.op, done |-> TRUE, servers |-> fn.servers,
               ret |-> r.ret, raised |-> r.raised]
  /\ UNCHANGED <<dcs, before, imp, call, n>>

\* import_servers(odcs)
ImportServers ==
  /\ fn.op = "import_servers"
  /\ ~fn.done
  /\ LET r == import_servers([BaseOdcs EXCEPT !.servers = fn.servers])
     IN fn' = [op |-> fn.op, done |-> TRUE, servers |-> fn.servers,
               ret |-> r.ret, raised |-> r.raised]
  /\ UNCHANGED <<dcs, before, imp, call, n>>

\* The credential variables of each reader, in the order it reads them
AzureVariables ==
  <<"DATACONTRACT_AZURE_CLIENT_ID", "DATACONTRACT_AZURE_CLIENT_SECRET",
    "DATACONTRACT_AZURE_TENANT_ID">>

S3Variables ==
  <<"DATACONTRACT_S3_ACCESS_KEY_ID", "DATACONTRACT_S3_SECRET_ACCESS_KEY",
    "DATACONTRACT_S3_SESSION_TOKEN">>

\* The environments: each variable set or not set
Environments(variables) ==
  [{variables[i] : i \in DOMAIN variables} -> {None, Some("***")}]

\* yield_az_files(run, "acct", "orders/*.json")
YieldAzFiles ==
  /\ fn.op = "yield_az_files"
  /\ ~fn.done
  /\ LET r == yield_az_files("acct", "orders/*.json", fn.installed, fn.env)
     IN fn' = [op |-> fn.op, done |-> TRUE, installed |-> fn.installed,
               env |-> fn.env, variables |-> fn.variables,
               raised |-> r.raised, name |-> r.name, fs |-> r.fs,
               listed |-> r.listed]
  /\ UNCHANGED <<dcs, before, imp, call, n>>

\* yield_s3_files(run, "https://s3.local", "orders/*.json")
YieldS3Files ==
  /\ fn.op = "yield_s3_files"
  /\ ~fn.done
  /\ LET r == yield_s3_files("https://s3.local", "orders/*.json",
                             fn.installed, fn.env)
     IN fn' = [op |-> fn.op, done |-> TRUE, installed |-> fn.installed,
               env |-> fn.env, variables |-> fn.variables,
               raised |-> r.raised, name |-> r.name, fs |-> r.fs,
               listed |-> r.listed]
  /\ UNCHANGED <<dcs, before, imp, call, n>>

\* The calls to make: each function with each of its inputs
FnCalls ==
  {[op |-> "map_type_from_sql", done |-> FALSE, sql_type |-> t] :
     t \in {None} \cup {Some(t) : t \in TypeTokens}}
  \cup {[op |-> "size", done |-> FALSE, column |-> c] : c \in SizedColumns}
  \cup {[op |-> "dialect_keys", done |-> FALSE, id |-> id, odcs_property |-> pr] :
          id \in DialectIds, pr \in PhysicalProperties}
  \cup {[op |-> "to_status", done |-> FALSE, status |-> st] : st \in StatusTexts}
  \cup {[op |-> "quality_round_trip", done |-> FALSE, quality_list |-> ql] :
          ql \in QualityLists}
  \cup {[op |-> "convert_quality_list", done |-> FALSE, odcs_quality_list |-> ql] :
          ql \in OdcsQualityLists}
  \cup {[op |-> "get_server_type", done |-> FALSE, servers |-> sv] :
          sv \in NamedServerLists}
  \cup {[op |-> "import_servers", done |-> FALSE, servers |-> sv] :
          sv \in NamedServerLists \cup StorageServerLists}
  \cup {[op |-> "yield_az_files", done |-> FALSE, installed |-> i, env |-> env,
          variables |-> AzureVariables] :
          i \in BOOLEAN, env \in Environments(AzureVariables)}
  \cup {[op |-> "yield_s3_files", done |-> FALSE, installed |-> i, env |-> env,
          variables |-> S3Variables] :
          i \in BOOLEAN, env \in Environments(S3Variables)}

InitFn ==
  /\ dcs = BaseDoc
  /\ before = dcs
  /\ imp = None
  /\ call = [op |-> "none"]
  /\ n = 0
  /\ fn \in FnCalls

NextFn ==
  \/ MapTypeFromSql
  \/ SizeOfColumn
  \/ DialectKeys
  \/ ToStatus
  \/ QualityRoundTrip
  \/ ConvertQualityList
  \/ GetServerType
  \/ ImportServers
  \/ YieldAzFiles
  \/ YieldS3Files

SpecFn == InitFn /\ [][NextFn]_vars

----------------------------------------------------------------------------
(* Properties *)

\* The statement a successful import read
ImportedStatement == Get(Get(imp).source.parsed)

\* The last import_sql call returned normally
ImportSucceeded == imp # None /\ Get(imp).raised = "none"

\* C1: after import_sql, every column listed in the table-level PRIMARY KEY
\* constraint of the created table has required, unique and primaryKey true in
\* the table's model, for one listed column and for several.
C1_TableLevelPrimaryKeyForced ==
  ImportSucceeded =>
    LET st == ImportedStatement
        fields == dcs.models.at[st.tables[1]].fields
    IN \A i \in DOMAIN st.primary_key :
         /\ HasKey(fields, st.primary_key[i])
         /\ fields.at[st.primary_key[i]].required = Some(TRUE)
         /\ fields.at[st.primary_key[i]].unique = Some(TRUE)
         /\ fields.at[st.primary_key[i]].primaryKey = Some(TRUE)

\* C2: an import_sql call whose source file is missing or does not parse
\* raises the structured error and leaves the document as it was before the
\* call, with no server and no model added.
C2_FailedImportIsAtomic ==
  (/\ imp # None
   /\ ~Get(imp).source.exists \/ Get(imp).source.parsed = None
   /\ Get(imp).raised = "DataContractException") =>
    dcs = before

\* The canonical types of the specification
CanonicalTypes ==
  {"string", "integer", "long", "float", "decimal", "boolean", "date",
   "timestamp_tz", "timestamp_ntz", "bytes", "array", "object", "variant",
   "null"}

\* C3: every value map_type_from_sql returns for a type token is one of the
\* canonical types.
C3_MappedTypeIsCanonical ==
  (fn.op = "map_type_from_sql" /\ fn.done /\ fn.sql_type # None) =>
    /\ fn.ret # None
    /\ Get(fn.ret) \in CanonicalTypes

\* The prefixes and the exact keywords the resolver knows
PrefixTable ==
  {Chars(k) : k \in {"varchar", "char", "string", "nchar", "text", "nvarchar",
                     "ntext", "int", "tinyint", "smallint", "bigint", "float",
                     "double", "number", "numeric", "decimal", "bool", "bit",
                     "binary", "varbinary"}}

KeywordTable ==
  {Chars(k) : k \in {"real", "date", "time", "timestamp", "timestamptz",
                     "timestamp_tz", "timestamp with time zone",
                     "timestamp_ltz", "timestampntz", "timestamp_ntz",
                     "smalldatetime", "datetime", "datetime2",
                     "datetimeoffset", "uniqueidentifier", "json", "xml"}}

\* The token, case and surrounding blanks aside, is no keyword and begins
\* with no prefix of the tables
Unrecognized(token) ==
  LET t == Strip(Lower(token))
  IN /\ t \notin KeywordTable
     /\ \A k \in PrefixTable : ~StartsWith(t, k)

\* C4: for a type token that matches neither the keyword table nor a prefix
\* of the prefix table, map_type_from_sql returns the fallback type variant.
C4_UnrecognizedTokenIsVariant ==
  (fn.op = "map_type_from_sql" /\ fn.done /\ fn.sql_type # None
     /\ Unrecognized(Get(fn.sql_type))) =>
    fn.ret = Some("variant")

\* The names under which a data contract writes the integer type
IntegerTypeNames == {"int", "integer"}

\* The token begins with the keyword, in whatever letter case
BeginsWith(token, keyword) == StartsWith(Lower(token), Chars(keyword))

\* C5: in every letter case and with every parameter list, a token that
\* begins with bigint resolves to long, one that begins with int, tinyint or
\* smallint to the integer type, one that begins with varchar to string and
\* one that begins with decimal to decimal.
C5_PrefixMatchIgnoresCase ==
  (fn.op = "map_type_from_sql" /\ fn.done /\ fn.sql_type # None) =>
    LET token == Get(fn.sql_type)
    IN /\ BeginsWith(token, "bigint") => fn.ret = Some("long")
       /\ (\/ BeginsWith(token, "int")
           \/ BeginsWith(token, "tinyint")
           \/ BeginsWith(token, "smallint")) =>
            (fn.ret # None /\ Get(fn.ret) \in IntegerTypeNames)
       /\ BeginsWith(token, "varchar") => fn.ret = Some("string")
       /\ BeginsWith(token, "decimal") => fn.ret = Some("decimal")

\* C5 witness: BIGINT(10, 2), in upper case and with parameters, has been
\* resolved to long
C5_Witness ==
  /\ fn.op = "map_type_from_sql"
  /\ fn.done
  /\ fn.sql_type = Some(Chars("BIGINT") \o Chars("(10, 2)"))
  /\ fn.ret = Some("long")

\* The dialect identifiers of the registry
RegistryIds ==
  {"sqlserver", "postgres", "bigquery", "snowflake", "redshift", "oracle",
   "mysql", "databricks"}

\* The extension key the registry gives each of its dialects
ExtensionKey(id) ==
  CASE id = "sqlserver" -> "sqlserverType"
    [] id = "postgres" -> "postgresType"
    [] id = "bigquery" -> "bigqueryType"
    [] id = "snowflake" -> "snowflakeType"
    [] id = "redshift" -> "redshiftType"
    [] id = "oracle" -> "oracleType"
    [] id = "mysql" -> "mysqlType"
    [] id = "databricks" -> "databricksType"

\* C6: for every dialect of the registry, the key the SQL importer stores the
\* physical type under is the key the ODCS importer files it under for the
\* dialect's server type, and the ODCS exporter reads the type back from it.
C6_DialectKeysAgree ==
  (fn.op = "dialect_keys" /\ fn.done /\ fn.id \in RegistryIds) =>
    /\ fn.key = ExtensionKey(fn.id)
    /\ HasKey(fn.config, fn.key)
    /\ fn.config.at[fn.key] = Get(fn.odcs_property.physicalType)
    /\ fn.read = fn.odcs_property.physicalType

\* The dialect parameter of the call: None when import_args is None, has no
\* dialect, or has the dialect None
DialectArg(import_args) ==
  IF import_args = None THEN None
  ELSE IF "dialect" \notin DOMAIN Get(import_args) THEN None
  ELSE Get(import_args)["dialect"]

\* The registry identifier the call names, if it names one
KnownId(import_args) ==
  {id \in RegistryIds : DialectArg(import_args) = Some(Chars(id))}

\* The source is a file of DDL that parses, every column with a type
WellFormed(source) ==
  /\ source.exists
  /\ source.parsed # None
  /\ \A i \in DOMAIN Get(source.parsed).columns :
       Get(source.parsed).columns[i].kind # None

\* The server names of a document
ServerNames(doc) ==
  IF doc.servers = None THEN {} ELSE DOMAIN Get(doc.servers).at

\* C7: with no dialect or an identifier the registry does not know, an
\* import of well-formed DDL completes, adds no server and stores every
\* column's physical type under physicalType; with an identifier of the
\* registry it adds exactly one server, named and typed by the inferred
\* server type.
C7_DialectParameter ==
  (imp # None /\ WellFormed(Get(imp).source)) =>
    LET import_args == Get(imp).import_args
        st == ImportedStatement
    IN /\ KnownId(import_args) = {} =>
            /\ Get(imp).raised = "none"
            /\ dcs.servers = before.servers
            /\ \A i \in DOMAIN st.columns :
                 LET fields == dcs.models.at[st.columns[i].parent].fields
                 IN /\ HasKey(fields, st.columns[i].name)
                    /\ fields.at[st.columns[i].name].config # None
                    /\ DOMAIN Get(fields.at[st.columns[i].name].config).at
                         = {"physicalType"}
       /\ (KnownId(import_args) # {} /\ before.servers # None) =>
            \E id \in KnownId(import_args) :
              /\ ServerNames(dcs) = ServerNames(before) \cup {id}
              /\ Get(dcs.servers).at[id]["type"] = Some(id)

\* The type names whose columns carry a precision and a scale, and those
\* whose columns carry a length
NumericTypeNames == {Chars(nm) : nm \in {"DECIMAL", "NUMERIC", "FLOAT", "NUMBER"}}

CharacterTypeNames == {Chars(nm) : nm \in {"VARCHAR", "CHAR", "NVARCHAR", "NCHAR"}}

\* C8: a numeric column with one integer parameter p gets precision p and
\* scale 0, with two integer parameters p, s precision p and scale s, with a
\* parameter that is no non-negative integer literal neither; a character
\* column with one integer parameter n gets maxLength n; a column of any other
\* type gets no maxLength, no precision and no scale.
C8_SizeExtraction ==
  (fn.op = "size" /\ fn.done) =>
    LET nm == Get(fn.column.kind).name
        ps == Get(fn.column.kind).params
        numeric == nm \in NumericTypeNames
        character == nm \in CharacterTypeNames
    IN /\ numeric =>
            \A p \in ParamValues :
              ps = <<NumText(p)>> =>
                fn.precision = Some(p) /\ fn.scale = Some(0)
       /\ numeric =>
            \A p \in ParamValues, q \in ParamValues :
              ps = <<NumText(p), NumText(q)>> =>
                fn.precision = Some(p) /\ fn.scale = Some(q)
       /\ (/\ numeric
           /\ Len(ps) \in {1, 2}
           /\ \E i \in DOMAIN ps : ps[i] \in NonLiteralParams) =>
            fn.precision = None /\ fn.scale = None
       /\ character =>
            \A len \in ParamValues :
              ps = <<NumText(len)>> => fn.maxLength = Some(len)
       /\ ~character => fn.maxLength = None
       /\ ~numeric => fn.precision = None /\ fn.scale = None

\* C8 witness: the size of a DECIMAL(10) column has been extracted as
\* precision 10 and scale 0
C8_Witness ==
  /\ fn.op = "size"
  /\ fn.done
  /\ Get(fn.column.kind).name = Chars("DECIMAL")
  /\ Get(fn.column.kind).params = <<Chars("10")>>
  /\ fn.precision = Some(10)
  /\ fn.scale = Some(0)

\* The exported schema property of a field of a model
ExportedProperties(odcs_doc, model_name, field_name) ==
  LET objects == {odcs_doc.schema_[i] :
                    i \in {j \in DOMAIN odcs_doc.schema_ :
                             odcs_doc.schema_[j].name = model_name}}
  IN {pr \in UNION {{so.properties[j] : j \in DOMAIN so.properties} :
                      so \in objects} :
        pr.name = field_name}

\* C9: for every column imported under a dialect of the registry, the field
\* holds the column's type string under the dialect's extension key, and the
\* export of the field holds the same string under the same key.
C9_PhysicalTypeRoundTrip ==
  (/\ call.op = "to_odcs_v3"
   /\ ImportSucceeded
   /\ KnownId(Get(imp).import_args) # {}) =>
    LET st == ImportedStatement
        key == ExtensionKey(CHOOSE id \in KnownId(Get(imp).import_args) : TRUE)
    IN \A i \in DOMAIN st.columns :
         LET column == st.columns[i]
             vendor_type == DataTypeSql(Get(column.kind), None)
             field == dcs.models.at[column.parent].fields.at[column.name]
         IN /\ field.type # None
            /\ field.config # None
            /\ HasKey(Get(field.config), key)
            /\ Get(field.config).at[key] = vendor_type
            /\ \A pr \in ExportedProperties(call.odcs, column.parent, column.name) :
                 /\ pr.customProperties # None
                 /\ \E j \in DOMAIN Get(pr.customProperties) :
                      /\ Get(pr.customProperties)[j].property = key
                      /\ Get(pr.customProperties)[j].value = vendor_type

\* The exported server record of a server name
ExportedServers(odcs_doc, server_name) ==
  IF odcs_doc.servers = None THEN {}
  ELSE {Get(odcs_doc.servers)[i] : i \in
          {j \in DOMAIN Get(odcs_doc.servers) :
             Get(odcs_doc.servers)[j]["server"] = Some(server_name)}}

\* The exported SLA property or support channel of a name is there
HasSla(odcs_doc, name) ==
  /\ odcs_doc.slaProperties # None
  /\ \E i \in DOMAIN Get(odcs_doc.slaProperties) :
       Get(odcs_doc.slaProperties)[i].property = name

HasSupport(odcs_doc, channel) ==
  /\ odcs_doc.support # None
  /\ \E i \in DOMAIN Get(odcs_doc.support) :
       Get(odcs_doc.support)[i].channel = channel

\* C10: in the export of a document, the terms texts, the service levels,
\* the contact channels, every server attribute (its type among them), the
\* model and field descriptions and the field type are present exactly when
\* the source field is present.
C10_AbsenceStaysAbsence ==
  call.op = "to_odcs_v3" =>
    LET o == call.odcs
        present(outer, attr) == outer # None /\ Get(outer)[attr] # None
    IN /\ present(o.description, "purpose") <=> present(dcs.terms, "description")
       /\ present(o.description, "usage") <=> present(dcs.terms, "usage")
       /\ present(o.description, "limitations") <=> present(dcs.terms, "limitations")
       /\ HasSla(o, "generalAvailability")
            <=> present(dcs.servicelevels, "availability")
       /\ HasSla(o, "retention") <=> present(dcs.servicelevels, "retention")
       /\ HasSupport(o, "email") <=> present(dcs.info.contact, "email")
       /\ HasSupport(o, "other") <=> present(dcs.info.contact, "url")
       /\ \A name \in ServerNames(dcs) :
            \A sv \in ExportedServers(o, name) :
              \A a \in CopiedServerAttrs \cup {"type", "roles"} :
                sv[a] # None <=> Get(dcs.servers).at[name][a] # None
       /\ \A i \in DOMAIN o.schema_ :
            LET model == dcs.models.at[o.schema_[i].name]
            IN /\ o.schema_[i].description # None <=> model.description # None
               /\ \A j \in DOMAIN o.schema_[i].properties :
                    LET pr == o.schema_[i].properties[j]
                    IN /\ pr.description # None
                            <=> model.fields.at[pr.name].description # None
                       /\ pr.physicalType # None
                            <=> model.fields.at[pr.name].type # None

\* The statuses of ODCS v3
ValidStatuses ==
  {Chars("proposed"), Chars("draft"), Chars("active"), Chars("deprecated"),
   Chars("retired")}

\* C11: to_status always returns one of proposed, draft, active, deprecated,
\* retired: the lower-cased status when that is one of them, and draft for a
\* missing status and for every other text.
C11_StatusNormalised ==
  (fn.op = "to_status" /\ fn.done) =>
    /\ fn.ret \in ValidStatuses
    /\ IF fn.status # None /\ Lower(Get(fn.status)) \in ValidStatuses
         THEN fn.ret = Lower(Get(fn.status))
         ELSE fn.ret = Chars("draft")

\* C11 witness: the status ACTIVE has been normalised to active
C11_Witness ==
  /\ fn.op = "to_status"
  /\ fn.done
  /\ fn.status = Some(Chars("ACTIVE"))
  /\ fn.ret = Chars("active")

\* The names of the SLA properties of an ODCS document, in order
SlaNames(odcs_doc) ==
  IF odcs_doc.slaProperties = None THEN <<>>
  ELSE [i \in DOMAIN Get(odcs_doc.slaProperties) |->
          Get(odcs_doc.slaProperties)[i].property]

\* The SLA properties of an ODCS document that have the name
SlaNamed(odcs_doc, name) ==
  IF odcs_doc.slaProperties = None THEN {}
  ELSE {Get(odcs_doc.slaProperties)[i] :
          i \in {j \in DOMAIN Get(odcs_doc.slaProperties) :
                   Get(odcs_doc.slaProperties)[j].property = name}}

\* C12: the export has an SLA property generalAvailability exactly when the
\* document has an availability service level and one named retention exactly
\* when it has a retention service level, availability first; the SLA list is
\* absent when neither is there; the retention property carries the retention
\* period text, value and unit in one, as its value.
C12_SlaExport ==
  (call.op = "to_odcs_v3") =>
    LET sl == dcs.servicelevels
        hasAvailability == sl # None /\ Get(sl).availability # None
        hasRetention == sl # None /\ Get(sl).retention # None
    IN /\ SlaNames(call.odcs) =
            (IF hasAvailability THEN <<"generalAvailability">> ELSE <<>>)
            \o (IF hasRetention THEN <<"retention">> ELSE <<>>)
       /\ (call.odcs.slaProperties = None) <=> (~hasAvailability /\ ~hasRetention)
       /\ hasRetention =>
            \A p \in SlaNamed(call.odcs, "retention") :
              p.value = Get(Get(sl).retention).period /\ p.unit = None

\* C12 witness: a document with both service levels has been exported with
\* the two SLA properties
C12_Witness ==
  /\ call.op = "to_odcs_v3"
  /\ dcs.servicelevels # None
  /\ Get(dcs.servicelevels).availability # None
  /\ Get(dcs.servicelevels).retention # None
  /\ SlaNames(call.odcs) = <<"generalAvailability", "retention">>

\* C13: the export has one support entry per contact channel present, the
\* email channel with the URL mailto: followed by the address and the channel
\* other with the contact URL, email first; the support list is absent when
\* the contact is absent or has neither channel.
C13_SupportExport ==
  (call.op = "to_odcs_v3") =>
    LET contact == dcs.info.contact
        email == IF contact # None THEN Get(contact).email ELSE None
        url == IF contact # None THEN Get(contact).url ELSE None
        expected ==
          (IF email # None
             THEN <<[channel |-> "email",
                     url |-> <<"m", "a", "i", "l", "t", "o", ":">> \o Get(email)]>>
             ELSE <<>>)
          \o (IF url # None
                THEN <<[channel |-> "other", url |-> Get(url)]>> ELSE <<>>)
    IN call.odcs.support = (IF expected = <<>> THEN None ELSE Some(expected))

\* C13 witness: a contact with an email address and a URL has been exported
\* as two support entries
C13_Witness ==
  /\ call.op = "to_odcs_v3"
  /\ dcs.info.contact # None
  /\ Get(dcs.info.contact).email # None
  /\ Get(dcs.info.contact).url # None
  /\ call.odcs.support # None
  /\ Len(Get(call.odcs.support)) = 2

\* The comparison operators that keep their name in ODCS
UnrenamedOperators ==
  {"mustBe", "mustNotBe", "mustBeGreaterThan", "mustBeLessThan",
   "mustBeBetween", "mustNotBeBetween"}

\* C14: to_odcs_quality_list returns a list of the same length and order in
\* which mustBeGreaterThanOrEqualTo has become mustBeGreaterOrEqualTo,
\* mustBeLessThanOrEqualTo has become mustBeLessOrEqualTo and every other
\* comparison operator is copied; convert_quality_list of that list restores
\* the type, description, query and every comparison operator of each rule.
C14_QualityRenameInverts ==
  (fn.op = "quality_round_trip" /\ fn.done) =>
    LET quality_list == fn.quality_list
        odcs_quality_list == fn.odcs_quality_list
        back == fn.back
    IN /\ Len(odcs_quality_list) = Len(quality_list)
       /\ \A i \in DOMAIN quality_list :
            /\ odcs_quality_list[i]["type"] = quality_list[i]["type"]
            /\ odcs_quality_list[i]["mustBeGreaterOrEqualTo"] =
                 quality_list[i]["mustBeGreaterThanOrEqualTo"]
            /\ odcs_quality_list[i]["mustBeLessOrEqualTo"] =
                 quality_list[i]["mustBeLessThanOrEqualTo"]
            /\ \A a \in UnrenamedOperators :
                 odcs_quality_list[i][a] = quality_list[i][a]
       /\ Len(back) = Len(quality_list)
       /\ \A i \in DOMAIN quality_list :
            \A a \in {"type", "description", "query"} \cup QualityOperators :
              back[i][a] = quality_list[i][a]

\* C14 witness: a list of two rules, the first with a lower bound of 0 under
\* mustBeGreaterThanOrEqualTo, has been exported and imported back
C14_Witness ==
  /\ fn.op = "quality_round_trip"
  /\ fn.done
  /\ Len(fn.quality_list) = 2
  /\ fn.quality_list[1]["mustBeGreaterThanOrEqualTo"] = Some(0)
  /\ fn.odcs_quality_list[1]["mustBeGreaterOrEqualTo"] = Some(0)
  /\ fn.back[1]["mustBeGreaterThanOrEqualTo"] = Some(0)
  /\ fn.quality_list[2] # fn.quality_list[1]

\* C15: convert_quality_list files each present attribute among
\* businessImpact, dimension, rule, schedule, scheduler, severity, method and
\* the custom properties in the extension map of the resulting rule, under
\* the same name and with the same value, and files nothing for an attribute
\* that is absent.
C15_QualityExtrasKept ==
  (fn.op = "convert_quality_list" /\ fn.done /\ fn.odcs_quality_list # None) =>
    LET odcs_quality_list == Get(fn.odcs_quality_list)
    IN /\ Len(fn.ret) = Len(odcs_quality_list)
       /\ \A i \in DOMAIN odcs_quality_list :
            LET odcs_quality == odcs_quality_list[i]
                extra == fn.ret[i]["model_extra"]
            IN /\ \A a \in OdcsOnlyAttrs :
                    IF odcs_quality[a] # None
                      THEN HasKey(extra, a) /\ extra.at[a] = Get(odcs_quality[a])
                      ELSE ~HasKey(extra, a)
               /\ IF odcs_quality["customProperties"] # None
                    THEN /\ HasKey(extra, "customProperties")
                         /\ extra.at["customProperties"] =
                              Get(odcs_quality["customProperties"])
                    ELSE ~HasKey(extra, "customProperties")
               /\ \A j \in DOMAIN extra.order :
                    extra.order[j] \in OdcsOnlyAttrs \cup {"customProperties"}

\* C15 witness: a rule with a severity, a schedule and custom properties has
\* been converted and its extension map holds all three
C15_Witness ==
  /\ fn.op = "convert_quality_list"
  /\ fn.done
  /\ fn.odcs_quality_list # None
  /\ \E i \in DOMAIN fn.ret :
       /\ Get(fn.odcs_quality_list)[i]["severity"] # None
       /\ Get(fn.odcs_quality_list)[i]["customProperties"] # None
       /\ HasKey(fn.ret[i]["model_extra"], "severity")
       /\ HasKey(fn.ret[i]["model_extra"], "schedule")
       /\ HasKey(fn.ret[i]["model_extra"], "customProperties")

\* The export is that of a document that import_from_odcs has just filled
RoundTripped ==
  /\ call.op = "to_odcs_v3"
  /\ imp # None
  /\ Get(imp).raised = "none"

\* The schema objects of an ODCS document read from a file, and the
\* properties of one of them
InputSchemas(odcs_doc) ==
  IF odcs_doc.schema_ = None THEN <<>> ELSE Get(odcs_doc.schema_)

InputProperties(odcs_schema) ==
  IF odcs_schema.properties = None THEN <<>> ELSE Get(odcs_schema.properties)

\* C16: the export of an imported ODCS document has the id, name and version
\* of the document, the same schema object names in the same order, and in
\* every schema object the same property names in the same order, each with
\* the physicalType and the description it has in the document.
C16_StructuralRoundTrip ==
  RoundTripped =>
    LET doc == Get(imp).odcs
        out == call.odcs
    IN /\ out.id = doc.id
       /\ out.name = doc.name
       /\ out.version = doc.version
       /\ Len(out.schema_) = Len(InputSchemas(doc))
       /\ \A i \in DOMAIN InputSchemas(doc) :
            LET properties == InputProperties(InputSchemas(doc)[i])
            IN /\ out.schema_[i].name = InputSchemas(doc)[i].name
               /\ Len(out.schema_[i].properties) = Len(properties)
               /\ \A j \in DOMAIN properties :
                    /\ out.schema_[i].properties[j].name = properties[j].name
                    /\ out.schema_[i].properties[j].physicalType =
                         properties[j].physicalType
                    /\ out.schema_[i].properties[j].description =
                         properties[j].description

\* C17: the export of an imported ODCS document has the status of the
\* document, the purpose of its description, its generalAvailability and
\* retention SLA properties and its support channels.
C17_MetadataRoundTrip ==
  RoundTripped =>
    LET doc == Get(imp).odcs
        out == call.odcs
    IN /\ doc.status # None => out.status = doc.status
       /\ (doc.description # None /\ Get(doc.description).purpose # None) =>
            /\ out.description # None
            /\ Get(out.description).purpose = Get(doc.description).purpose
       /\ SlaNamed(out, "generalAvailability") = SlaNamed(doc, "generalAvailability")
       /\ SlaNamed(out, "retention") = SlaNamed(doc, "retention")
       /\ doc.support # None => out.support = doc.support

\* C18: get_server_type returns the type of the first entry of the server
\* list, whatever the names of the entries, and nothing when the document
\* has no server.
C18_FirstServerType ==
  (fn.op = "get_server_type" /\ fn.done) =>
    /\ fn.raised = "none"
    /\ IF fn.servers = None \/ fn.servers = Some(<<>>)
         THEN fn.ret = None
         ELSE fn.ret = Get(fn.servers)[1]["type"]

\* The account name in a location: the text between the first @ or :// that
\* a name and a dot follow and that dot; nothing when there is none
AccountName(location) ==
  IF location = None \/ re_search(Get(location)) = None THEN None
  ELSE Some(Get(re_search(Get(location))).group[2])

\* C19: import_servers never raises; the storageAccount of a server of the
\* azure type is the account name of its location when the location has one,
\* and absent when it has none or when there is no location; the
\* storageAccount of a server of any other type is absent.
C19_StorageAccountBestEffort ==
  (fn.op = "import_servers" /\ fn.done) =>
    /\ fn.raised = "none"
    /\ fn.servers # None =>
         /\ fn.ret # None
         /\ \A i \in DOMAIN Get(fn.servers) :
              LET odcs_server == Get(fn.servers)[i]
                  last == \A j \in DOMAIN Get(fn.servers) :
                            j > i => Get(fn.servers)[j]["server"] # odcs_server["server"]
              IN (odcs_server["server"] # None /\ last) =>
                   LET server == Get(fn.ret).at[Get(odcs_server["server"])]
                   IN IF /\ odcs_server["type"] = Some("azure")
                         /\ AccountName(odcs_server["location"]) # None
                        THEN /\ server["storageAccount"] # None
                             /\ Get(server["storageAccount"]).kind = "str"
                             /\ Get(server["storageAccount"]).text =
                                  Get(AccountName(odcs_server["location"]))
                        ELSE server["storageAccount"] = None

\* The custom properties of an ODCS document that define a type alias
TypeAliases(odcs_doc) ==
  IF odcs_doc.customProperties = None THEN {}
  ELSE {Get(odcs_doc.customProperties)[i] :
          i \in {j \in DOMAIN Get(odcs_doc.customProperties) :
                   StartsWith(Get(odcs_doc.customProperties)[j].property,
                              <<"d", "c", "_", "m", "a", "p", "p", "i", "n", "g", "_">>)}}

\* The type name an alias is for
AliasedName(alias) == SubSeq(alias.property, 12, Len(alias.property))

\* C20: when a document has a custom property dc_mapping_<name> with value c,
\* every schema property of the document whose type is <name> is imported
\* with Field.type c, unless <name> is a canonical type, which stays as it
\* is; and the models imported do not depend on the documents imported
\* before.
C20_TypeAliasesApplied ==
  (call.op = "import_from_odcs" /\ Get(imp).raised = "none") =>
    LET doc == Get(imp).odcs
    IN /\ \A alias \in TypeAliases(doc) :
            \A i \in DOMAIN InputSchemas(doc) :
              \A j \in DOMAIN InputProperties(InputSchemas(doc)[i]) :
                LET odcs_property == InputProperties(InputSchemas(doc)[i])[j]
                    field == dcs.models.at[InputSchemas(doc)[i].name]
                               .fields.at[odcs_property.name]
                IN odcs_property.physicalType = Some(AliasedName(alias)) =>
                     field.type =
                       (IF AliasedName(alias) \in DATACONTRACT_TYPES
                          THEN Some(AliasedName(alias))
                          ELSE Some(alias.value))
       /\ dcs.models = import_from_odcs(BaseDoc, doc).doc.models

\* The credential variables of the call that are not set, by position
MissingVariables == {i \in DOMAIN fn.variables : fn.env[fn.variables[i]] = None}

\* C21: when the reader's package is there and a credential variable of the
\* reader is not set, the call raises DataContractException with a name that
\* contains the first variable not set, in the order the reader checks them,
\* and no filesystem client has been built and no file listed.
C21_MissingCredentialNamed ==
  (/\ fn.op \in {"yield_az_files", "yield_s3_files"}
   /\ fn.done
   /\ fn.installed
   /\ MissingVariables # {}) =>
    LET first == CHOOSE i \in MissingVariables : \A j \in MissingVariables : i <= j
    IN /\ fn.raised = "DataContractException"
       /\ \E k \in DOMAIN fn.name : fn.name[k] = fn.variables[first]
       /\ fn.fs = None
       /\ ~fn.listed

\* The server type the last import_sql call inferred, as a set of names
InferredServerNames ==
  LET server_type == to_server_type(Get(imp).source, to_dialect(Get(imp).import_args))
  IN IF server_type = None THEN {} ELSE {Get(server_type)}

\* The table names the last import_sql call parsed
ParsedTableNames ==
  {ImportedStatement.tables[i] : i \in DOMAIN ImportedStatement.tables}

\* C22: a successful import_sql leaves the id, info, terms, service levels and
\* tags of the document as they were, leaves every model under a name that is
\* no parsed table name and every server under a name that is not the
\* inferred server type as it was, and replaces a model under a parsed
\* table's name as a whole: nothing of the old model is left.
C22_ImportSqlFrame ==
  (call.op = "import_sql" /\ ImportSucceeded) =>
    /\ dcs.id = before.id
    /\ dcs.info = before.info
    /\ dcs.terms = before.terms
    /\ dcs.servicelevels = before.servicelevels
    /\ dcs.tags = before.tags
    /\ \A m \in DOMAIN before.models.at :
         m \notin ParsedTableNames =>
           HasKey(dcs.models, m) /\ dcs.models.at[m] = before.models.at[m]
    /\ before.servers # None =>
         /\ dcs.servers # None
         /\ \A sv \in DOMAIN Get(before.servers).at :
              sv \notin InferredServerNames =>
                /\ HasKey(Get(dcs.servers), sv)
                /\ Get(dcs.servers).at[sv] = Get(before.servers).at[sv]
    /\ before.servers = None => dcs.servers = None
    /\ \A t \in ParsedTableNames :
         /\ HasKey(dcs.models, t)
         /\ dcs.models.at[t] =
              TableModel(sqlglot_model_wrapper(t, ImportedStatement,
                                               to_dialect(Get(imp).import_args)))

\* C22 witness: a successful import of a statement that creates T into a
\* document that had a view T with the field old: the model T is now a table
\* without that field
C22_Witness ==
  /\ call.op = "import_sql"
  /\ ImportSucceeded
  /\ HasKey(before.models, "T")
  /\ HasKey(before.models.at["T"].fields, "old")
  /\ "T" \in ParsedTableNames
  /\ dcs.models.at["T"].type = Some("table")
  /\ ~HasKey(dcs.models.at["T"].fields, "old")

\* C23: for every named ODCS server with a role list, import_servers gives
\* the server one role per ODCS role, in order, with the role as its name and
\* the same description, and exporting the server gives the role list back;
\* a server without a role list gets no roles.
C23_ServerRolesImported ==
  (fn.op = "import_servers" /\ fn.done /\ fn.raised = "none" /\ fn.servers # None) =>
    \A i \in DOMAIN Get(fn.servers) :
      LET odcs_server == Get(fn.servers)[i]
          last == \A j \in DOMAIN Get(fn.servers) :
                    j > i => Get(fn.servers)[j]["server"] # odcs_server["server"]
      IN (odcs_server["server"] # None /\ last) =>
           LET server == Get(fn.ret).at[Get(odcs_server["server"])]
           IN IF odcs_server["roles"] = None
                THEN server["roles"] = None
                ELSE /\ server["roles"] =
                          Some([k \in DOMAIN Get(odcs_server["roles"]) |->
                                  [name |-> Get(odcs_server["roles"])[k].role,
                                   description |->
                                     Get(odcs_server["roles"])[k].description]])
                     /\ to_odcs_server(Get(odcs_server["server"]), server)["roles"] =
                          odcs_server["roles"]

====
